---- MODULE Spec2Model ----
(***************************************************************************)
(* A model of ortty: the envelope extractor, the extraction from a         *)
(* transaction, the inscription identifier and the classification of       *)
(* src/src/inscription.rs, and the filters of src/src/filter.rs as         *)
(* src/src/scan.rs and src/src/explore.rs apply them.                      *)
(*                                                                         *)
(* extract_script scans the decoded instructions of a tapscript for        *)
(* inscription envelopes.  The model follows the function helper call by   *)
(* helper call: `pc` is the position inside the body of the scanning loop, *)
(* `instructions` the VecDeque the helpers pop from, `inscriptions` the    *)
(* result vector, `media_type` and `data` the two locals of the loop body. *)
(* `script` is the function's argument; it never changes.                  *)
(*                                                                         *)
(* Four specifications share the module.  Spec runs extract_script on one  *)
(* script; TxSpec runs extract_all, extract_witness, the identifier's      *)
(* formatting and parsing, and fetch_and_print on one transaction;         *)
(* FilterSpec runs scan_block, scan_transaction and the explorer's         *)
(* retrieve_block_inscriptions on the inscriptions of one block;           *)
(* ExploreSpec runs the view loop of explore().  Each leaves the variables *)
(* of the others at rest.                                                  *)
(***************************************************************************)
EXTENDS Integers, Sequences, FiniteSets

VARIABLES script, instructions, inscriptions, media_type, data, pc

vars == <<script, instructions, inscriptions, media_type, data, pc>>

\* extract_all and extract_witness: the transaction `tx` (its inputs) and
\* its `txid`, the loop index `idx` and the vector `collected` of
\* extract_all, the argument `input` of extract_witness, the value `ret`
\* returned.  The identifier: the InscriptionId `ident` formatted, the
\* string `idstr`, what from_str made of it (`parsedId`), the record
\* `picked` whose identifier was given to fetch_and_print and what that got
\* for it (`fetched`).  `tpc` is the call in progress.
VARIABLES tx, txid, tpc, idx, collected, input, ret,
          ident, idstr, parsedId, picked, fetched

txvars == <<tx, txid, tpc, idx, collected, input, ret,
            ident, idstr, parsedId, picked, fetched>>

\* The filters: what extraction finds in the inputs of a `block`, the
\* `records` made of it, the selected `filters`, the `result` of the
\* function `fpc` names.
VARIABLES block, records, filters, result, fpc

fvars == <<block, records, filters, result, fpc>>

\* The explorer: the `view` stack, the `extra_opts` set, the number of
\* `blocks` the node reports, the view cloned at the head of the loop
\* (`rendered`), the `options` of the last Select prompt and the entry
\* `chosen` from it.  `epc` is where explore() is.  The explorer's filters
\* are `filters`; `block`, `records` and `result` are the block fetched by
\* retrieve_block_inscriptions, its inscriptions and those kept.
VARIABLES view, extra_opts, blocks, rendered, options, chosen, epc

evars == <<view, extra_opts, blocks, rendered, options, chosen, epc>>

\* The values of variables at rest.
NoResult == [ok |-> TRUE, err |-> "", value |-> <<>>]
NoId == [ok |-> FALSE, txid |-> <<>>, index |-> 0]

ScriptAtRest ==
    /\ script = <<>>
    /\ instructions = <<>>
    /\ inscriptions = <<>>
    /\ media_type = <<>>
    /\ data = <<>>
    /\ pc = "rest"

TxAtRest ==
    /\ tx = <<>>
    /\ txid = <<>>
    /\ tpc = "rest"
    /\ idx = 0
    /\ collected = <<>>
    /\ input = 0
    /\ ret = NoResult
    /\ ident = [txid |-> <<>>, index |-> 0]
    /\ idstr = <<>>
    /\ parsedId = NoId
    /\ picked = <<>>
    /\ fetched = NoResult

FilterAtRest ==
    /\ block = <<>>
    /\ records = <<>>
    /\ filters = {}
    /\ result = <<>>
    /\ fpc = "rest"

NoChoice == [index |-> 0, value |-> <<>>]
NoView == [kind |-> "None", start |-> [some |-> FALSE, value |-> 0],
           index |-> [some |-> FALSE, value |-> 0], height |-> 0,
           items |-> <<>>, item |-> <<>>]

ExploreAtRest ==
    /\ view = <<>>
    /\ extra_opts = {}
    /\ blocks = 0
    /\ rendered = NoView
    /\ options = <<>>
    /\ chosen = NoChoice
    /\ epc = "rest"

(***************************************************************************)
(* Instructions (bitcoin::script::Instruction): an opcode or a push.       *)
(***************************************************************************)
OP_IF == 99
OP_ENDIF == 104
OP_CHECKSIG == 172

Op(code) == [kind |-> "op", bytes |-> <<>>, op |-> code]
PushBytes(b) == [kind |-> "push", bytes |-> b, op |-> 0]

IsPush(ins) == ins.kind = "push"
IsOp(ins) == ins.kind = "op"

\* The byte strings the extractor compares against, and the ones the
\* enumerated scripts are built from.
OrdBytes == <<111, 114, 100>>
OneBytes == <<1>>
TagBytes == <<116, 47, 112>>
BadBytes == <<255>>
HiBytes == <<104, 105>>

PushEmpty == PushBytes(<<>>)
PushOrd == PushBytes(OrdBytes)
PushOne == PushBytes(OneBytes)
PushTag == PushBytes(TagBytes)
PushBad == PushBytes(BadBytes)
PushHi == PushBytes(HiBytes)
OpIf == Op(OP_IF)
OpEndif == Op(OP_ENDIF)
OpChecksig == Op(OP_CHECKSIG)

(***************************************************************************)
(* std::str::from_utf8(..).is_ok(): the well-formed UTF-8 byte sequences.  *)
(***************************************************************************)
RECURSIVE Utf8From(_, _)
Utf8From(b, i) ==
    IF i > Len(b) THEN TRUE
    ELSE LET c == b[i]
             Cont(k) == k <= Len(b) /\ b[k] >= 128 /\ b[k] <= 191
         IN  IF c <= 127 THEN Utf8From(b, i + 1)
             ELSE IF c >= 194 /\ c <= 223
                  THEN Cont(i + 1) /\ Utf8From(b, i + 2)
             ELSE IF c >= 224 /\ c <= 239
                  THEN /\ Cont(i + 1) /\ Cont(i + 2)
                       /\ (c = 224 => b[i + 1] >= 160)
                       /\ (c = 237 => b[i + 1] <= 159)
                       /\ Utf8From(b, i + 3)
             ELSE IF c >= 240 /\ c <= 244
                  THEN /\ Cont(i + 1) /\ Cont(i + 2) /\ Cont(i + 3)
                       /\ (c = 240 => b[i + 1] >= 144)
                       /\ (c = 244 => b[i + 1] <= 143)
                       /\ Utf8From(b, i + 4)
             ELSE FALSE

IsUtf8(b) == Utf8From(b, 1)

(***************************************************************************)
(* The helpers of extract_script.  Each takes the queue and yields what    *)
(* the Rust helper returns (`some`: Some or None, with the value where     *)
(* there is one) and the queue it leaves behind (`rest`).                  *)
(***************************************************************************)
\* extract_op0 as it would be with the peek-then-pop of extract_opendif: an
\* instruction that is not an empty push stays at the front.
ExtractOp0Peek(q) ==
    IF q = <<>> THEN [some |-> FALSE, rest |-> q]
    ELSE IF IsPush(Head(q)) /\ Head(q).bytes = <<>>
         THEN [some |-> TRUE, rest |-> Tail(q)]
         ELSE [some |-> FALSE, rest |-> q]

\* extract_op0: pop; Some iff the popped instruction is an empty push.
ExtractOp0(q) ==
    IF q = <<>> THEN [some |-> FALSE, rest |-> q]
    ELSE [some |-> IsPush(Head(q)) /\ Head(q).bytes = <<>>, rest |-> Tail(q)]

\* extract_opif: pop; Some iff the popped instruction is the opcode OP_IF.
ExtractOpif(q) ==
    IF q = <<>> THEN [some |-> FALSE, rest |-> q]
    ELSE [some |-> IsOp(Head(q)) /\ Head(q).op = OP_IF, rest |-> Tail(q)]

\* extract_ord: pop; Some iff the popped instruction is the push "ord".
ExtractOrd(q) ==
    IF q = <<>> THEN [some |-> FALSE, rest |-> q]
    ELSE [some |-> IsPush(Head(q)) /\ Head(q).bytes = OrdBytes, rest |-> Tail(q)]

\* extract_push1 without the comparison with [1]: any push passes.
ExtractPush1AnyPush(q) ==
    IF q = <<>> THEN [some |-> FALSE, rest |-> q]
    ELSE [some |-> IsPush(Head(q)), rest |-> Tail(q)]

\* extract_push1 with an optional marker: a front that is not the push [1]
\* is left in place and the candidate goes on.
ExtractPush1Optional(q) ==
    IF q = <<>> THEN [some |-> FALSE, rest |-> q]
    ELSE IF IsPush(Head(q)) /\ Head(q).bytes = OneBytes
         THEN [some |-> TRUE, rest |-> Tail(q)]
         ELSE [some |-> TRUE, rest |-> q]

\* extract_push1: pop; Some iff the popped instruction is the push [1].
ExtractPush1(q) ==
    IF q = <<>> THEN [some |-> FALSE, rest |-> q]
    ELSE [some |-> IsPush(Head(q)) /\ Head(q).bytes = OneBytes, rest |-> Tail(q)]

\* extract_media_type: pop; Some(bytes as a String) iff the popped
\* instruction is a push of well-formed UTF-8.
ExtractMediaType(q) ==
    IF q = <<>> THEN [some |-> FALSE, value |-> <<>>, rest |-> q]
    ELSE IF IsPush(Head(q)) /\ IsUtf8(Head(q).bytes)
         THEN [some |-> TRUE, value |-> Head(q).bytes, rest |-> Tail(q)]
         ELSE [some |-> FALSE, value |-> <<>>, rest |-> Tail(q)]

\* extract_until_op0 discarding opcodes as it discards pushes: only the end
\* of the queue yields None.
RECURSIVE ExtractUntilOp0SkipOps(_)
ExtractUntilOp0SkipOps(q) ==
    IF q = <<>> THEN [some |-> FALSE, rest |-> q]
    ELSE IF IsPush(Head(q)) /\ Head(q).bytes = <<>>
         THEN [some |-> TRUE, rest |-> Tail(q)]
    ELSE ExtractUntilOp0SkipOps(Tail(q))

\* extract_until_op0: pop until an empty push has been popped (Some); an
\* opcode ends the helper with None (`push_bytes()?`), and so does the end
\* of the queue.
RECURSIVE ExtractUntilOp0(_)
ExtractUntilOp0(q) ==
    IF q = <<>> THEN [some |-> FALSE, rest |-> q]
    ELSE IF IsOp(Head(q)) THEN [some |-> FALSE, rest |-> Tail(q)]
    ELSE IF Head(q).bytes = <<>> THEN [some |-> TRUE, rest |-> Tail(q)]
    ELSE ExtractUntilOp0(Tail(q))

\* extract_data stopping at an empty push as it does at an opcode.
RECURSIVE ExtractDataStopAtEmpty(_)
ExtractDataStopAtEmpty(q) ==
    IF q = <<>> THEN [value |-> <<>>, rest |-> q]
    ELSE IF IsOp(Head(q)) \/ Head(q).bytes = <<>>
         THEN [value |-> <<>>, rest |-> q]
    ELSE LET r == ExtractDataStopAtEmpty(Tail(q))
         IN  [value |-> Head(q).bytes \o r.value, rest |-> r.rest]

\* extract_data: while the front is a push, append its bytes and pop it;
\* an opcode at the front is left there.
RECURSIVE ExtractData(_)
ExtractData(q) ==
    IF q = <<>> THEN [value |-> <<>>, rest |-> q]
    ELSE IF IsOp(Head(q)) THEN [value |-> <<>>, rest |-> q]
    ELSE LET r == ExtractData(Tail(q))
         IN  [value |-> Head(q).bytes \o r.value, rest |-> r.rest]

\* extract_opendif without the comparison with OP_ENDIF: any opcode passes.
ExtractOpendifAnyOp(q) ==
    IF q = <<>> THEN [some |-> FALSE, rest |-> q]
    ELSE IF IsOp(Head(q))
         THEN [some |-> TRUE, rest |-> Tail(q)]
         ELSE [some |-> FALSE, rest |-> q]

\* extract_opendif: peek; Some iff the front is the opcode OP_ENDIF, which
\* is then popped.  Nothing is popped otherwise.
ExtractOpendif(q) ==
    IF q = <<>> THEN [some |-> FALSE, rest |-> q]
    ELSE IF IsOp(Head(q)) /\ Head(q).op = OP_ENDIF
         THEN [some |-> TRUE, rest |-> Tail(q)]
         ELSE [some |-> FALSE, rest |-> q]

(***************************************************************************)
(* The scripts extract_script is run on.                                   *)
(***************************************************************************)
MaxLead == 2
MaxMid == 2
MaxPay == 2
MaxEnvs == 2

SeqsUpTo(S, n) == UNION {[1..k -> S] : k \in 0..n}

Alphabet == {PushEmpty, PushOrd, PushOne, PushTag, PushBad,
             OpIf, OpEndif, OpChecksig}
MidAlphabet == {PushHi, OpChecksig}
PayAlphabet == {PushEmpty, PushHi, PushBad}
TagPushes == {PushTag, PushEmpty, PushBad}

\* What follows "ord": the format marker and a tag push, or neither.
Heads == {<<PushOne, t>> : t \in TagPushes} \cup {<<>>}
\* What follows the payload: OP_ENDIF, another opcode, or the end.
Closers == {<<OpEndif>>, <<OpChecksig>>, <<>>}

Envelope(tag, mids, pays) ==
    <<PushEmpty, OpIf, PushOrd, PushOne, tag>> \o mids \o <<PushEmpty>>
        \o pays \o <<OpEndif>>

\* Envelope candidates: complete, tag-less, unterminated, noisy.
Cands ==
    {<<PushEmpty, OpIf, PushOrd>> \o h \o m \o <<PushEmpty>> \o p \o c :
        h \in Heads, m \in SeqsUpTo(MidAlphabet, MaxMid),
        p \in SeqsUpTo(PayAlphabet, MaxPay), c \in Closers}

StdEnvs == {Envelope(PushTag, <<>>, <<PushHi>>),
            Envelope(PushEmpty, <<PushHi>>, <<PushBad, PushEmpty>>)}

RECURSIVE Flatten(_)
Flatten(ss) == IF ss = <<>> THEN <<>> ELSE Head(ss) \o Flatten(Tail(ss))

\* Up to n envelopes back to back.
Tails(n) == {Flatten(es) : es \in SeqsUpTo(StdEnvs, n)}

Scripts ==
    {l \o t : l \in SeqsUpTo(Alphabet, MaxLead), t \in Tails(MaxEnvs)}
        \cup {c \o t : c \in Cands, t \in Tails(1)}

(***************************************************************************)
(* script.instructions().collect(): the iterator yields the instructions   *)
(* of the script in order and, where the bytes cannot be decoded, one      *)
(* error, after which it ends.  `script` is the sequence of items the      *)
(* iterator yields; DecodeError is the error item.                         *)
(***************************************************************************)
DecodeError == [kind |-> "err", bytes |-> <<>>, op |-> 0]

IsErr(item) == item.kind = "err"

\* A script that decodes, or one whose decoding ends in an error.
Items == Scripts \cup {s \o <<DecodeError>> : s \in Scripts}

\* Collecting while dropping the error: the instructions decoded before it.
CollectOkPrefix(s) ==
    [ok |-> TRUE, value |-> SelectSeq(s, LAMBDA item : ~IsErr(item))]

\* Collecting into Result<VecDeque<_>, _>: Err as soon as one item is an
\* error, else every instruction.
CollectInstructions(s) ==
    IF \E i \in 1..Len(s) : IsErr(s[i])
    THEN [ok |-> FALSE, value |-> <<>>]
    ELSE [ok |-> TRUE, value |-> s]

(***************************************************************************)
(* extract_script                                                          *)
(***************************************************************************)
Init ==
    /\ script \in Items
    /\ instructions = CollectInstructions(script).value
    /\ inscriptions = <<>>
    /\ media_type = <<>>
    /\ data = <<>>
    /\ pc = IF CollectInstructions(script).ok THEN "loop" ELSE "err"
    /\ TxAtRest
    /\ FilterAtRest
    /\ ExploreAtRest

\* `if instructions.is_err()`: return the empty inscriptions.
ReturnErr ==
    /\ pc = "err"
    /\ pc' = "done"
    /\ UNCHANGED <<script, instructions, inscriptions, media_type, data>>
    /\ UNCHANGED <<txvars, fvars, evars>>

\* `while !instructions.is_empty()` is false: return inscriptions.
Return ==
    /\ pc = "loop"
    /\ instructions = <<>>
    /\ pc' = "done"
    /\ UNCHANGED <<script, instructions, inscriptions, media_type, data>>
    /\ UNCHANGED <<txvars, fvars, evars>>

Op0 ==
    /\ pc = "loop"
    /\ instructions # <<>>
    /\ LET r == ExtractOp0(instructions)
       IN  /\ instructions' = r.rest
           /\ pc' = IF r.some THEN "opif" ELSE "loop"
    /\ UNCHANGED <<script, inscriptions, media_type, data>>
    /\ UNCHANGED <<txvars, fvars, evars>>

Opif ==
    /\ pc = "opif"
    /\ LET r == ExtractOpif(instructions)
       IN  /\ instructions' = r.rest
           /\ pc' = IF r.some THEN "ord" ELSE "loop"
    /\ UNCHANGED <<script, inscriptions, media_type, data>>
    /\ UNCHANGED <<txvars, fvars, evars>>

Ord ==
    /\ pc = "ord"
    /\ LET r == ExtractOrd(instructions)
       IN  /\ instructions' = r.rest
           /\ pc' = IF r.some THEN "push1" ELSE "loop"
    /\ UNCHANGED <<script, inscriptions, media_type, data>>
    /\ UNCHANGED <<txvars, fvars, evars>>

Push1 ==
    /\ pc = "push1"
    /\ LET r == ExtractPush1(instructions)
       IN  /\ instructions' = r.rest
           /\ pc' = IF r.some THEN "media" ELSE "loop"
    /\ UNCHANGED <<script, inscriptions, media_type, data>>
    /\ UNCHANGED <<txvars, fvars, evars>>

MediaType ==
    /\ pc = "media"
    /\ LET r == ExtractMediaType(instructions)
       IN  /\ instructions' = r.rest
           /\ media_type' = IF r.some THEN r.value ELSE media_type
           /\ pc' = IF r.some THEN "until" ELSE "loop"
    /\ UNCHANGED <<script, inscriptions, data>>
    /\ UNCHANGED <<txvars, fvars, evars>>

UntilOp0 ==
    /\ pc = "until"
    /\ LET r == ExtractUntilOp0(instructions)
       IN  /\ instructions' = r.rest
           /\ pc' = IF r.some THEN "data" ELSE "loop"
    /\ UNCHANGED <<script, inscriptions, media_type, data>>
    /\ UNCHANGED <<txvars, fvars, evars>>

Data ==
    /\ pc = "data"
    /\ LET r == ExtractData(instructions)
       IN  /\ instructions' = r.rest
           /\ data' = r.value
    /\ pc' = "endif"
    /\ UNCHANGED <<script, inscriptions, media_type>>
    /\ UNCHANGED <<txvars, fvars, evars>>

\* extract_opendif, and on Some the push of (media_type, data).
Opendif ==
    /\ pc = "endif"
    /\ LET r == ExtractOpendif(instructions)
       IN  /\ instructions' = r.rest
           /\ inscriptions' =
                IF r.some
                THEN Append(inscriptions, [mime |-> media_type, data |-> data])
                ELSE inscriptions
    /\ pc' = "loop"
    /\ UNCHANGED <<script, media_type, data>>
    /\ UNCHANGED <<txvars, fvars, evars>>

Next ==
    \/ ReturnErr
    \/ Return
    \/ Op0
    \/ Opif
    \/ Ord
    \/ Push1
    \/ MediaType
    \/ UntilOp0
    \/ Data
    \/ Opendif

Spec == Init /\ [][Next]_vars

FairSpec == Spec /\ WF_vars(Next)

(***************************************************************************)
(* The envelope grammar of the specification, read off `script` by index.  *)
(* These recognizers are the vocabulary of the properties below; they are  *)
(* independent of the queue-based helpers above.                           *)
(***************************************************************************)
\* How many instructions of `script` have been popped so far.
Consumed == Len(script) - Len(instructions)

\* The queue is always what is left of the script.
SuffixInv ==
    instructions = SubSeq(script, Consumed + 1, Len(script))

\* The index of the first empty push (FirstOpFrom: the first opcode) of s
\* at or after i, or 0 when there is none.
FirstEmptyFrom(s, i) ==
    IF \E j \in i..Len(s) : s[j] = PushEmpty
    THEN CHOOSE j \in i..Len(s) :
            s[j] = PushEmpty /\ \A k \in i..(j - 1) : s[k] # PushEmpty
    ELSE 0

FirstOpFrom(s, i) ==
    IF \E j \in i..Len(s) : IsOp(s[j])
    THEN CHOOSE j \in i..Len(s) :
            IsOp(s[j]) /\ \A k \in i..(j - 1) : IsPush(s[k])
    ELSE 0

\* The bytes of the pushes s[i..j], concatenated in order.
RECURSIVE BytesOf(_, _, _)
BytesOf(s, i, j) ==
    IF i > j THEN <<>> ELSE BytesOf(s, i, j - 1) \o s[j].bytes

\* Grammar steps 1-4 at index i: empty push, OP_IF, "ord", [1], a tag push.
HeaderAt(s, i) ==
    /\ i >= 1
    /\ i + 4 <= Len(s)
    /\ s[i] = PushEmpty
    /\ s[i + 1] = OpIf
    /\ s[i + 2] = PushOrd
    /\ s[i + 3] = PushOne
    /\ IsPush(s[i + 4])

\* Step 5: the data separator of the candidate whose header is at i.
SepOf(s, i) == FirstEmptyFrom(s, i + 5)

\* Steps 6-7: the index of the opcode that ends payload accumulation.
EndOf(s, i) == IF SepOf(s, i) = 0 THEN 0 ELSE FirstOpFrom(s, SepOf(s, i) + 1)

\* The index of the OP_ENDIF closing a well-formed envelope (steps 1-7)
\* that starts at index i, or 0 when none starts there.
EnvEnd(s, i) ==
    IF HeaderAt(s, i) /\ EndOf(s, i) # 0 /\ s[EndOf(s, i)] = OpEndif
    THEN EndOf(s, i)
    ELSE 0

\* The record an envelope that starts at i encodes.
RecordAt(s, i) ==
    [mime |-> s[i + 4].bytes,
     data |-> BytesOf(s, SepOf(s, i) + 1, EndOf(s, i) - 1)]

\* The tag is UTF-8 and only pushes stand between it and the separator.
StrictAt(s, i) ==
    /\ EnvEnd(s, i) # 0
    /\ IsUtf8(s[i + 4].bytes)
    /\ \A k \in (i + 5)..(SepOf(s, i) - 1) : IsPush(s[k])

IsEnvelope(s) == s # <<>> /\ EnvEnd(s, 1) = Len(s)

ContainsEnvelope(s) == \E i \in 1..Len(s) : EnvEnd(s, i) # 0

\* s[i..] is a run of envelopes back to back; how many; their records.
RECURSIVE IsRun(_, _)
IsRun(s, i) ==
    IF i > Len(s) THEN TRUE
    ELSE EnvEnd(s, i) # 0 /\ StrictAt(s, i) /\ IsRun(s, EnvEnd(s, i) + 1)

RECURSIVE RunRecords(_, _)
RunRecords(s, i) ==
    IF i > Len(s) THEN <<>>
    ELSE <<RecordAt(s, i)>> \o RunRecords(s, EnvEnd(s, i) + 1)

\* No empty push is immediately followed by OP_IF inside s[1..k].
NoStartPair(s, k) ==
    \A j \in 1..(k - 1) : ~(s[j] = PushEmpty /\ s[j + 1] = OpIf)

(***************************************************************************)
(* Properties of extract_script                                            *)
(***************************************************************************)
Done == pc = "done"

\* C1: run on a stream that is exactly one well-formed envelope (empty
\* push, OP_IF, "ord", [1], a tag push, any instructions up to an empty
\* push, payload pushes, OP_ENDIF), extract_script returns exactly one
\* record, with the encoded tag and the encoded payload.
C1Claim ==
    (Done /\ IsEnvelope(script)) => inscriptions = <<RecordAt(script, 1)>>

\* C2: run on k >= 2 well-formed envelopes back to back, optionally after
\* leading instructions that hold no start marker, extract_script returns
\* the k records of the envelopes, in stream order.  Stated for envelopes
\* whose tag is UTF-8 and that hold only pushes before the separator.
C2Claim ==
    Done =>
        \A k \in 0..Len(script) :
            (/\ NoStartPair(script, k)
             /\ IsRun(script, k + 1)
             /\ Len(RunRecords(script, k + 1)) >= 2)
                => inscriptions = RunRecords(script, k + 1)

\* C3: leading instructions, none of them an empty push immediately
\* followed by OP_IF inside the leading part, do not prevent the extraction
\* of the well-formed envelope that follows them.  Stated for an envelope
\* whose tag is UTF-8 and that holds only pushes before the separator.
C3Claim ==
    Done =>
        \A k \in 0..Len(script) :
            (/\ NoStartPair(script, k)
             /\ EnvEnd(script, k + 1) = Len(script)
             /\ StrictAt(script, k + 1))
                => inscriptions = <<RecordAt(script, k + 1)>>

\* C4: extract_script terminates on every finite stream: the helper at the
\* head of the loop removes an instruction in every iteration, no helper
\* ever puts one back, and the function returns.
C4Theorem ==
    /\ [][pc = "loop" =>
            (pc' = "done" \/ Len(instructions') < Len(instructions))]_vars
    /\ [][Len(instructions') <= Len(instructions)]_vars
    /\ <>Done

\* A truncated stream has been scanned to its end: the stream stops inside
\* an envelope, after payload pushes, and extract_script has returned.
C4Witness ==
    /\ Done
    /\ HeaderAt(script, 1)
    /\ SepOf(script, 1) # 0
    /\ EndOf(script, 1) = 0
    /\ instructions = <<>>

\* C5: a stream that holds no well-formed envelope (no contiguous run that
\* matches grammar steps 1-7) yields the empty list.
C5Theorem ==
    ~ContainsEnvelope(script) => inscriptions = <<>>

\* A stream without an envelope in which a candidate got as far as its
\* media type has been scanned to its end.
C5Witness ==
    /\ Done
    /\ ~ContainsEnvelope(script)
    /\ media_type = TagBytes
    /\ inscriptions = <<>>

\* A candidate that reaches payload accumulation and is not closed: header
\* with a UTF-8 tag, pushes up to the separator, payload pushes, and then
\* the end of the stream or an opcode other than OP_ENDIF.
UnclosedAt(s, i) ==
    /\ HeaderAt(s, i)
    /\ IsUtf8(s[i + 4].bytes)
    /\ SepOf(s, i) # 0
    /\ \A k \in (i + 5)..(SepOf(s, i) - 1) : IsPush(s[k])
    /\ (EndOf(s, i) # 0 => s[EndOf(s, i)] # OpEndif)

\* The index at which the scan goes on after the candidate at i.
AfterUnclosed(s, i) == IF EndOf(s, i) = 0 THEN Len(s) + 1 ELSE EndOf(s, i) + 1

\* C6: a candidate whose payload accumulation is ended by an opcode other
\* than OP_ENDIF, or by the end of the stream, contributes no record: the
\* step after accumulation leaves the result as it is, and a stream made of
\* such a candidate and of envelopes after it yields the records of those
\* envelopes alone.
C6Theorem ==
    /\ [][(pc = "endif" /\ (instructions = <<>> \/ Head(instructions) # OpEndif))
            => (inscriptions' = inscriptions /\ pc' = "loop")]_vars
    /\ []((Done /\ UnclosedAt(script, 1)
                /\ IsRun(script, AfterUnclosed(script, 1)))
            => inscriptions = RunRecords(script, AfterUnclosed(script, 1)))

\* An unclosed candidate whose payload had been accumulated has been
\* scanned, and nothing was recorded.
C6Witness ==
    /\ Done
    /\ UnclosedAt(script, 1)
    /\ EndOf(script, 1) = Len(script)
    /\ data # <<>>
    /\ inscriptions = <<>>

\* A tag-less envelope at the front of s, in the specification's sense:
\* empty push, OP_IF, "ord", then a push that is not [1], no format marker
\* and no tag, the separator scan, payload pushes and OP_ENDIF.
TaglessAt(s) ==
    /\ Len(s) >= 5
    /\ s[1] = PushEmpty
    /\ s[2] = OpIf
    /\ s[3] = PushOrd
    /\ IsPush(s[4])
    /\ s[4] # PushOne
    /\ FirstEmptyFrom(s, 4) # 0
    /\ FirstOpFrom(s, FirstEmptyFrom(s, 4) + 1) # 0
    /\ s[FirstOpFrom(s, FirstEmptyFrom(s, 4) + 1)] = OpEndif

TaglessEnd(s) == FirstOpFrom(s, FirstEmptyFrom(s, 4) + 1)

TaglessRecord(s) ==
    [mime |-> <<>>,
     data |-> BytesOf(s, FirstEmptyFrom(s, 4) + 1, TaglessEnd(s) - 1)]

\* C7, as claimed: when the push after "ord" is not the format marker, the
\* candidate is a tag-less envelope: it is emitted with the empty string as
\* its tag, and no instruction is consumed for the missing marker.
C7Claim ==
    (Done /\ TaglessAt(script) /\ TaglessEnd(script) = Len(script))
        => inscriptions = <<TaglessRecord(script)>>

\* C7, as amended: when the instruction after "ord" is not the push [1],
\* the candidate fails: that instruction is consumed, nothing is recorded
\* for the candidate, and the scan resumes with the instruction after it; a
\* stream made of a tag-less envelope and of envelopes after it yields the
\* records of those envelopes alone.
C7Theorem ==
    /\ [][(pc = "push1" /\ instructions # <<>> /\ Head(instructions) # PushOne)
            => /\ pc' = "loop"
               /\ inscriptions' = inscriptions
               /\ instructions' = Tail(instructions)]_vars
    /\ []((Done /\ TaglessAt(script)
                /\ IsRun(script, TaglessEnd(script) + 1))
            => inscriptions = RunRecords(script, TaglessEnd(script) + 1))

\* A tag-less envelope with a payload has been scanned, and nothing was
\* recorded.
C7Witness ==
    /\ Done
    /\ TaglessAt(script)
    /\ TaglessEnd(script) = Len(script)
    /\ TaglessRecord(script).data # <<>>
    /\ inscriptions = <<>>

\* C8: a well-formed envelope whose tag push is not UTF-8 is still emitted,
\* with its payload unchanged (and a tag that counts as empty).
C8Claim ==
    (/\ Done
     /\ IsEnvelope(script)
     /\ ~IsUtf8(script[5].bytes)
     /\ \A k \in 6..(SepOf(script, 1) - 1) : IsPush(script[k]))
        => /\ Len(inscriptions) = 1
           /\ inscriptions[1].data = RecordAt(script, 1).data

\* C9: the separator scan consumes and discards every instruction, push or
\* opcode, up to and including the first empty push, and fails only when
\* the stream ends before an empty push.
C9Claim ==
    [][pc = "until" =>
        IF FirstEmptyFrom(instructions, 1) # 0
        THEN /\ pc' = "data"
             /\ instructions' =
                    SubSeq(instructions, FirstEmptyFrom(instructions, 1) + 1,
                           Len(instructions))
        ELSE /\ pc' = "loop"
             /\ instructions' = <<>>]_vars

\* C10: the payload is the concatenation, in stream order, of the pushes
\* (empty ones included) that stand between the separator and the first
\* opcode after it; that opcode is not part of it and stays in the queue;
\* the record emitted when it is OP_ENDIF carries this payload.
C10Theorem ==
    /\ [][pc = "data" =>
            /\ script[Consumed] = PushEmpty
            /\ data' = BytesOf(script, Consumed + 1, Consumed')
            /\ \A k \in (Consumed + 1)..Consumed' : IsPush(script[k])
            /\ (Consumed' < Len(script) => IsOp(script[Consumed' + 1]))]_vars
    /\ [][pc = "endif" =>
            \/ inscriptions' = inscriptions
            \/ /\ inscriptions' =
                    Append(inscriptions, [mime |-> media_type, data |-> data])
               /\ script[Consumed'] = OpEndif]_vars

\* A payload split over two pushes has been emitted as one byte sequence.
C10Witness ==
    /\ pc = "loop"
    /\ inscriptions # <<>>
    /\ inscriptions[Len(inscriptions)].data = HiBytes \o BadBytes
    /\ script[Consumed - 1] = PushBad
    /\ script[Consumed - 2] = PushHi

\* C11: decoding is all-or-nothing: when an item of the script is a
\* decoding error, extract_script yields no envelope at all, also when a
\* complete well-formed envelope stands before the error.
C11Theorem ==
    (\E i \in 1..Len(script) : IsErr(script[i])) => inscriptions = <<>>

\* A script with an envelope extract_script would emit, followed by a
\* decoding error, has been handled: nothing was returned.
C11Witness ==
    /\ Done
    /\ Len(script) > 0
    /\ IsErr(script[Len(script)])
    /\ StrictAt(script, 1)
    /\ inscriptions = <<>>

(***************************************************************************)
(* serde_json::from_str on a byte string that is well-formed UTF-8.  A     *)
(* parsed value is [t, s, items]: t is the kind of value, s the bytes of a *)
(* string (or the text of a number or literal), items the elements of an   *)
(* array or the members [key, val] of an object.  Every parsing operator   *)
(* yields [ok, value, next], next being the index after what it read.      *)
(* Bytes are written by their ASCII codes.                                 *)
(***************************************************************************)
JsonValue(t, s, items) == [t |-> t, s |-> s, items |-> items]

JsonNull == JsonValue("null", <<>>, <<>>)

JsonFail == [ok |-> FALSE, value |-> JsonNull, next |-> 0]

JsonOk(v, n) == [ok |-> TRUE, value |-> v, next |-> n]

\* Space, tab, line feed, carriage return.
IsWs(c) == c \in {32, 9, 10, 13}

IsDigit(c) == c >= 48 /\ c <= 57

\* The first index at or after i that holds no whitespace (Len(b) + 1 at
\* the end of the input).
SkipWs(b, i) ==
    CHOOSE j \in i..(Len(b) + 1) :
        /\ j = Len(b) + 1 \/ ~IsWs(b[j])
        /\ \A k \in i..(j - 1) : IsWs(b[k])

\* The first index at or after i that holds no decimal digit.
DigitsEnd(b, i) ==
    CHOOSE j \in i..(Len(b) + 1) :
        /\ j = Len(b) + 1 \/ ~IsDigit(b[j])
        /\ \A k \in i..(j - 1) : IsDigit(b[k])

\* Whether the bytes lit stand in b at index i.
MatchAt(b, i, lit) ==
    /\ i + Len(lit) - 1 <= Len(b)
    /\ SubSeq(b, i, i + Len(lit) - 1) = lit

\* The value of a hexadecimal digit, or -1.
HexVal(c) ==
    IF c >= 48 /\ c <= 57 THEN c - 48
    ELSE IF c >= 97 /\ c <= 102 THEN c - 87
    ELSE IF c >= 65 /\ c <= 70 THEN c - 55
    ELSE -1

\* The number written by the four hexadecimal digits at i, or -1.
Hex4(b, i) ==
    IF i + 3 <= Len(b) /\ \A k \in i..(i + 3) : HexVal(b[k]) >= 0
    THEN HexVal(b[i]) * 4096 + HexVal(b[i + 1]) * 256
         + HexVal(b[i + 2]) * 16 + HexVal(b[i + 3])
    ELSE -1

\* The UTF-8 encoding of a code point.
EncodeUtf8(cp) ==
    IF cp < 128 THEN <<cp>>
    ELSE IF cp < 2048 THEN <<192 + (cp \div 64), 128 + (cp % 64)>>
    ELSE IF cp < 65536
         THEN <<224 + (cp \div 4096), 128 + ((cp \div 64) % 64),
                128 + (cp % 64)>>
    ELSE <<240 + (cp \div 262144), 128 + ((cp \div 4096) % 64),
           128 + ((cp \div 64) % 64), 128 + (cp % 64)>>

\* The character a one-letter escape stands for, or -1.
SimpleEscape(e) ==
    IF e \in {34, 92, 47} THEN e
    ELSE IF e = 98 THEN 8
    ELSE IF e = 102 THEN 12
    ELSE IF e = 110 THEN 10
    ELSE IF e = 114 THEN 13
    ELSE IF e = 116 THEN 9
    ELSE -1

\* The characters of a string from i (just after the opening quote) to the
\* closing quote, escapes decoded; acc holds the characters read so far.
RECURSIVE ParseStringFrom(_, _, _)
ParseStringFrom(b, i, acc) ==
    IF i > Len(b) THEN JsonFail
    ELSE IF b[i] = 34 THEN JsonOk(JsonValue("string", acc, <<>>), i + 1)
    ELSE IF b[i] < 32 THEN JsonFail
    ELSE IF b[i] # 92 THEN ParseStringFrom(b, i + 1, Append(acc, b[i]))
    ELSE IF i + 1 > Len(b) THEN JsonFail
    ELSE IF b[i + 1] # 117
         THEN IF SimpleEscape(b[i + 1]) < 0 THEN JsonFail
              ELSE ParseStringFrom(b, i + 2,
                                   Append(acc, SimpleEscape(b[i + 1])))
    ELSE LET hi == Hex4(b, i + 2)
             lo == IF MatchAt(b, i + 6, <<92, 117>>)
                   THEN Hex4(b, i + 8) ELSE -1
         IN  IF hi < 0 THEN JsonFail
             ELSE IF hi >= 56320 /\ hi <= 57343 THEN JsonFail
             ELSE IF hi >= 55296 /\ hi <= 56319
                  THEN IF lo >= 56320 /\ lo <= 57343
                       THEN ParseStringFrom(b, i + 12,
                              acc \o EncodeUtf8(65536 + (hi - 55296) * 1024
                                                + (lo - 56320)))
                       ELSE JsonFail
             ELSE ParseStringFrom(b, i + 6, acc \o EncodeUtf8(hi))

\* A number at i: an optional minus, an integer part without a leading
\* zero, an optional fraction and an optional exponent.  The value keeps
\* the text of the number.
ParseNumber(b, i) ==
    LET j0 == IF b[i] = 45 THEN i + 1 ELSE i
        j1 == IF j0 <= Len(b) /\ b[j0] = 48 THEN j0 + 1 ELSE DigitsEnd(b, j0)
        hasFrac == j1 <= Len(b) /\ b[j1] = 46
        j2 == IF hasFrac THEN DigitsEnd(b, j1 + 1) ELSE j1
        hasExp == j2 <= Len(b) /\ b[j2] \in {101, 69}
        j3 == IF hasExp /\ j2 + 1 <= Len(b) /\ b[j2 + 1] \in {43, 45}
              THEN j2 + 2 ELSE j2 + 1
        j4 == IF hasExp THEN DigitsEnd(b, j3) ELSE j2
    IN  IF j1 = j0 THEN JsonFail
        ELSE IF hasFrac /\ j2 = j1 + 1 THEN JsonFail
        ELSE IF hasExp /\ j4 = j3 THEN JsonFail
        ELSE JsonOk(JsonValue("number", SubSeq(b, i, j4 - 1), <<>>), j4)

RECURSIVE ParseValue(_, _)
RECURSIVE ParseElements(_, _, _)
RECURSIVE ParseMembers(_, _, _)

\* The elements of an array from i, the first byte of an element, to the
\* closing bracket.
ParseElements(b, i, acc) ==
    LET v == ParseValue(b, i)
        k == SkipWs(b, v.next)
    IN  IF ~v.ok \/ k > Len(b) THEN JsonFail
        ELSE IF b[k] = 44
             THEN ParseElements(b, SkipWs(b, k + 1), Append(acc, v.value))
        ELSE IF b[k] = 93
             THEN JsonOk(JsonValue("array", <<>>, Append(acc, v.value)), k + 1)
        ELSE JsonFail

\* The members of an object from i, the opening quote of a key, to the
\* closing brace; acc is the map read so far, in which a member replaces
\* an earlier one with its key.
ParseMembers(b, i, acc) ==
    IF i > Len(b) \/ b[i] # 34 THEN JsonFail
    ELSE LET key == ParseStringFrom(b, i + 1, <<>>)
             c == SkipWs(b, key.next)
         IN  IF ~key.ok \/ c > Len(b) \/ b[c] # 58 THEN JsonFail
             ELSE LET v == ParseValue(b, SkipWs(b, c + 1))
                      k == SkipWs(b, v.next)
                      mem == [key |-> key.value.s, val |-> v.value]
                      map == Append(SelectSeq(acc,
                                      LAMBDA m : m.key # key.value.s), mem)
                  IN  IF ~v.ok \/ k > Len(b) THEN JsonFail
                      ELSE IF b[k] = 44
                           THEN ParseMembers(b, SkipWs(b, k + 1), map)
                      ELSE IF b[k] = 125
                           THEN JsonOk(JsonValue("object", <<>>, map), k + 1)
                      ELSE JsonFail

\* The value whose first byte is at i.
ParseValue(b, i) ==
    IF i > Len(b) THEN JsonFail
    ELSE IF b[i] = 110
         THEN IF MatchAt(b, i, <<110, 117, 108, 108>>)
              THEN JsonOk(JsonNull, i + 4) ELSE JsonFail
    ELSE IF b[i] = 116
         THEN IF MatchAt(b, i, <<116, 114, 117, 101>>)
              THEN JsonOk(JsonValue("bool", <<116, 114, 117, 101>>, <<>>),
                          i + 4)
              ELSE JsonFail
    ELSE IF b[i] = 102
         THEN IF MatchAt(b, i, <<102, 97, 108, 115, 101>>)
              THEN JsonOk(JsonValue("bool", <<102, 97, 108, 115, 101>>, <<>>),
                          i + 5)
              ELSE JsonFail
    ELSE IF b[i] = 34 THEN ParseStringFrom(b, i + 1, <<>>)
    ELSE IF b[i] = 45 \/ IsDigit(b[i]) THEN ParseNumber(b, i)
    ELSE IF b[i] = 91
         THEN LET j == SkipWs(b, i + 1)
              IN  IF j <= Len(b) /\ b[j] = 93
                  THEN JsonOk(JsonValue("array", <<>>, <<>>), j + 1)
                  ELSE ParseElements(b, j, <<>>)
    ELSE IF b[i] = 123
         THEN LET j == SkipWs(b, i + 1)
              IN  IF j <= Len(b) /\ b[j] = 125
                  THEN JsonOk(JsonValue("object", <<>>, <<>>), j + 1)
                  ELSE ParseMembers(b, j, <<>>)
    ELSE JsonFail

\* serde_json::from_str: one value, whitespace around it, nothing after.
JsonFromStr(b) ==
    LET v == ParseValue(b, SkipWs(b, 1))
    IN  IF v.ok /\ SkipWs(b, v.next) = Len(b) + 1
        THEN [ok |-> TRUE, value |-> v.value]
        ELSE [ok |-> FALSE, value |-> JsonNull]

\* Value::get with a string index: the member of an object stored under
\* key; None for a value that is no object or has no such member.
JsonGet(v, key) ==
    IF v.t # "object" THEN [some |-> FALSE, value |-> JsonNull]
    ELSE LET hits == {k \in 1..Len(v.items) : v.items[k].key = key}
         IN  IF hits = {} THEN [some |-> FALSE, value |-> JsonNull]
             ELSE [some |-> TRUE,
                   value |-> v.items[CHOOSE k \in hits : TRUE].val]

(***************************************************************************)
(* image::load_from_memory: the format is guessed from the first bytes and *)
(* the bytes are decoded in that format.  The payloads enumerated below    *)
(* carry the signature of one family of formats, the portable bitmaps      *)
(* "P1" (plain) and "P4" (raw); bytes with no signature are no image.      *)
(***************************************************************************)
\* The whitespace of a portable bitmap.
IsPnmWs(c) == c \in {9, 10, 11, 12, 13, 32}

SkipPnmWs(b, i) ==
    CHOOSE j \in i..(Len(b) + 1) :
        /\ j = Len(b) + 1 \/ ~IsPnmWs(b[j])
        /\ \A k \in i..(j - 1) : IsPnmWs(b[k])

\* The number written by the decimal digits b[i..j-1].
RECURSIVE DecValue(_, _, _)
DecValue(b, i, j) ==
    IF j <= i THEN 0 ELSE DecValue(b, i, j - 1) * 10 + (b[j - 1] - 48)

\* One number of the header: whitespace, then digits up to a whitespace
\* (which is consumed) or the end of the input.
ReadHeaderInt(b, i) ==
    LET s == SkipPnmWs(b, i)
        e == DigitsEnd(b, s)
    IN  IF i <= Len(b) /\ e > s /\ (e = Len(b) + 1 \/ IsPnmWs(b[e]))
        THEN [ok |-> TRUE, value |-> DecValue(b, s, e), next |-> e + 1]
        ELSE [ok |-> FALSE, value |-> 0, next |-> 0]

\* Whether n samples '0' or '1' of a plain bitmap can be read from i on.
RECURSIVE PlainRaster(_, _, _)
PlainRaster(b, i, n) ==
    IF n = 0 THEN TRUE
    ELSE IF i > Len(b) THEN FALSE
    ELSE LET s == SkipPnmWs(b, i)
         IN  /\ s <= Len(b)
             /\ b[s] \in {48, 49}
             /\ PlainRaster(b, s + 1, n - 1)

NoImage == [ok |-> FALSE, width |-> 0, height |-> 0]

LoadFromMemory(b) ==
    IF ~(MatchAt(b, 1, <<80, 49>>) \/ MatchAt(b, 1, <<80, 52>>)) THEN NoImage
    ELSE LET w == ReadHeaderInt(b, 3)
             h == IF w.ok THEN ReadHeaderInt(b, w.next) ELSE w
             raster ==
                 IF b[2] = 49
                 THEN PlainRaster(b, h.next, w.value * h.value)
                 ELSE Len(b) - (h.next - 1)
                        >= ((w.value + 7) \div 8) * h.value
         IN  IF w.ok /\ h.ok /\ w.value > 0 /\ h.value > 0 /\ raster
             THEN [ok |-> TRUE, width |-> w.value, height |-> h.value]
             ELSE NoImage

(***************************************************************************)
(* ParsedData and parse_data.                                              *)
(***************************************************************************)
ParsedData(kind, text, json, image) ==
    [kind |-> kind, text |-> text, json |-> json, image |-> image]

Binary == ParsedData("Binary", <<>>, JsonNull, NoImage)
Html(text) == ParsedData("Html", text, JsonNull, NoImage)
Image(image) == ParsedData("Image", <<>>, JsonNull, image)
Json(value) == ParsedData("Json", <<>>, value, NoImage)
Text(text) == ParsedData("Text", text, JsonNull, NoImage)

\* str::to_lowercase, on the bytes of the string.  The letters A to Z are
\* the only characters whose lower case is one of h, t, m, l.
ToLowercase(s) ==
    [i \in 1..Len(s) |-> IF s[i] >= 65 /\ s[i] <= 90 THEN s[i] + 32 ELSE s[i]]

\* str::contains with a string pattern.
Contains(s, pat) == \E i \in 1..(Len(s) + 1) : MatchAt(s, i, pat)

HtmlBytes == <<104, 116, 109, 108>>

\* parse_data with the image probe made before the UTF-8 probe.
ParseDataImageFirst(payload, mime) ==
    IF LoadFromMemory(payload).ok THEN Image(LoadFromMemory(payload))
    ELSE IF IsUtf8(payload)
         THEN IF Contains(ToLowercase(mime), HtmlBytes) THEN Html(payload)
              ELSE IF JsonFromStr(payload).ok THEN Json(JsonFromStr(payload).value)
              ELSE Text(payload)
    ELSE Binary

\* parse_data with the JSON probe made before the look at the tag.
ParseDataJsonFirst(payload, mime) ==
    IF IsUtf8(payload)
    THEN IF JsonFromStr(payload).ok THEN Json(JsonFromStr(payload).value)
         ELSE IF Contains(ToLowercase(mime), HtmlBytes) THEN Html(payload)
         ELSE Text(payload)
    ELSE IF LoadFromMemory(payload).ok THEN Image(LoadFromMemory(payload))
    ELSE Binary

ParseData(payload, mime) ==
    IF IsUtf8(payload)
    THEN IF Contains(ToLowercase(mime), HtmlBytes) THEN Html(payload)
         ELSE IF JsonFromStr(payload).ok THEN Json(JsonFromStr(payload).value)
         ELSE Text(payload)
    ELSE IF LoadFromMemory(payload).ok THEN Image(LoadFromMemory(payload))
    ELSE Binary

Brc20Bytes == <<98, 114, 99, 45, 50, 48>>

\* is_brc20 without the look at the variant: any text that is brc-20 JSON.
IsBrc20AnyText(parsed) ==
    /\ parsed.kind \in {"Json", "Html", "Text"}
    /\ LET v == IF parsed.kind = "Json" THEN parsed.json
                ELSE JsonFromStr(parsed.text).value
           p == JsonGet(v, <<112>>)
       IN  p.some /\ p.value.t = "string" /\ p.value.s = Brc20Bytes

\* ParsedData::is_brc20: Json whose member "p" is the string "brc-20".
IsBrc20(parsed) ==
    /\ parsed.kind = "Json"
    /\ LET p == JsonGet(parsed.json, <<112>>)
       IN  p.some /\ p.value.t = "string" /\ p.value.s = Brc20Bytes

IsText(parsed) == parsed.kind \in {"Html", "Json", "Text"}
IsJson(parsed) == parsed.kind = "Json"
IsHtml(parsed) == parsed.kind = "Html"
IsImage(parsed) == parsed.kind = "Image"

(***************************************************************************)
(* extract_script as a function of the script: the loop of the actions     *)
(* above, run to its end.                                                  *)
(***************************************************************************)
\* The values of the queue and of the result vector.
Instructions == [kind : {"op", "push"}, bytes : Seq(0..255), op : 0..255]
Pairs == [mime : Seq(0..255), data : Seq(0..255)]

\* The loop from the queue q and the result out on.
ExtractLoop[q \in Seq(Instructions), out \in Seq(Pairs)] ==
    IF q = <<>> THEN out
    ELSE LET op0 == ExtractOp0(q)
             opif == ExtractOpif(op0.rest)
             ord == ExtractOrd(opif.rest)
             push1 == ExtractPush1(ord.rest)
             media == ExtractMediaType(push1.rest)
             until == ExtractUntilOp0(media.rest)
             payload == ExtractData(until.rest)
             opendif == ExtractOpendif(payload.rest)
         IN  IF ~op0.some THEN ExtractLoop[op0.rest, out]
             ELSE IF ~opif.some THEN ExtractLoop[opif.rest, out]
             ELSE IF ~ord.some THEN ExtractLoop[ord.rest, out]
             ELSE IF ~push1.some THEN ExtractLoop[push1.rest, out]
             ELSE IF ~media.some THEN ExtractLoop[media.rest, out]
             ELSE IF ~until.some THEN ExtractLoop[until.rest, out]
             ELSE IF ~opendif.some THEN ExtractLoop[opendif.rest, out]
             ELSE ExtractLoop[opendif.rest,
                              Append(out, [mime |-> media.value,
                                           data |-> payload.value])]

ExtractScript(s) ==
    IF CollectInstructions(s).ok
    THEN ExtractLoop[CollectInstructions(s).value, <<>>]
    ELSE <<>>

\* The function and the step-by-step run return the same.
ExtractScriptAgrees == pc = "done" => inscriptions = ExtractScript(script)

(***************************************************************************)
(* Transactions.  An input (TxIn) is what extract_inscription reads of it: *)
(* whether its witness has a tapscript, and the items the tapscript's      *)
(* instruction iterator yields.                                            *)
(***************************************************************************)
NoTapscript == [tapscript |-> FALSE, items |-> <<>>]
Tapscript(s) == [tapscript |-> TRUE, items |-> s]

MaxInputs == 2

\* An envelope that is never closed.
Unterminated ==
    <<PushEmpty, OpIf, PushOrd, PushOne, PushTag, PushEmpty, PushHi>>

\* The tapscripts of the inputs: one envelope or two back to back, nothing
\* but an opcode, an unterminated envelope, and scripts that do not decode
\* (after an envelope or not).
TapScripts ==
    StdEnvs \cup {a \o b : a \in StdEnvs, b \in StdEnvs}
        \cup {<<OpChecksig>>, Unterminated, <<DecodeError>>}
        \cup {a \o <<DecodeError>> : a \in StdEnvs}

TxIns == {NoTapscript} \cup {Tapscript(s) : s \in TapScripts}

Transactions == SeqsUpTo(TxIns, MaxInputs)

\* Txid: 32 bytes.
TxidLen == 32

Txids == {[i \in 1..TxidLen |-> (i * m) % 256] : m \in {0, 9, 255}}

\* A Result: Ok(value) or Err(err).
Ok(v) == [ok |-> TRUE, err |-> "", value |-> v]
Err(e) == [ok |-> FALSE, err |-> e, value |-> <<>>]

\* extract_inscription: None without a tapscript, else what extract_script
\* returns.
ExtractInscription(txin) ==
    IF txin.tapscript
    THEN [some |-> TRUE, value |-> ExtractScript(txin.items)]
    ELSE [some |-> FALSE, value |-> <<>>]

\* The record with its index one too high.
InscriptionNextIndex(t, index, mime, bytes) ==
    [txid |-> t, index |-> index + 1, mime |-> mime, data |-> bytes,
     parsed |-> ParseData(bytes, mime)]

Inscription(t, index, mime, bytes) ==
    [txid |-> t, index |-> index, mime |-> mime, data |-> bytes,
     parsed |-> ParseData(bytes, mime)]

\* `inscriptions.into_iter().enumerate().map(..).collect()`: the records of
\* the pairs found in one witness, numbered from zero.
Enumerate[found \in Seq(Pairs), id \in Seq(0..255)] ==
    [k \in 1..Len(found) |->
        Inscription(id, k - 1, found[k].mime, found[k].data)]

\* extract_witness with an input out of range taken for one without
\* inscriptions.
ExtractWitnessAnyInput(t, id, n) ==
    IF n < Len(t) /\ ExtractInscription(t[n + 1]).some
    THEN Ok(Enumerate[ExtractInscription(t[n + 1]).value, id])
    ELSE Ok(<<>>)

\* Inscription::extract_witness(tx, input), tx being the inputs t and the
\* txid id, inputs counted from zero.
ExtractWitness(t, id, n) ==
    IF n >= Len(t) THEN Err("Missing input")
    ELSE IF ExtractInscription(t[n + 1]).some
         THEN Ok(Enumerate[ExtractInscription(t[n + 1]).value, id])
    ELSE Ok(<<>>)

(***************************************************************************)
(* InscriptionId: Display, FromStr, and Inscription::inscription_id.       *)
(* Strings are sequences of ASCII codes.                                   *)
(***************************************************************************)
HexDigit(n) == IF n < 10 THEN 48 + n ELSE 87 + n

\* Txid's Display with the bytes in their stored order.
FmtTxidForward(t) ==
    [k \in 1..(2 * Len(t)) |->
        LET byte == t[(k + 1) \div 2]
        IN  HexDigit(IF k % 2 = 1 THEN byte \div 16 ELSE byte % 16)]

\* Txid's Display: two lower-case hexadecimal digits a byte, the last byte
\* first.
FmtTxid(t) ==
    [k \in 1..(2 * Len(t)) |->
        LET byte == t[Len(t) - ((k + 1) \div 2) + 1]
        IN  HexDigit(IF k % 2 = 1 THEN byte \div 16 ELSE byte % 16)]

\* Txid's FromStr: 64 hexadecimal digits, the last byte first.
ParseTxid[s \in Seq(0..255)] ==
    IF Len(s) = 2 * TxidLen /\ \A k \in 1..Len(s) : HexVal(s[k]) >= 0
    THEN [ok |-> TRUE,
          value |-> [i \in 1..TxidLen |->
                        16 * HexVal(s[2 * (TxidLen - i) + 1])
                        + HexVal(s[2 * (TxidLen - i) + 2])]]
    ELSE [ok |-> FALSE, value |-> <<>>]

\* usize's Display: decimal.
RECURSIVE FmtUsize(_)
FmtUsize(n) ==
    IF n < 10 THEN <<48 + n>>
    ELSE Append(FmtUsize(n \div 10), 48 + (n % 10))

\* usize's FromStr: an optional plus sign and at least one decimal digit.
\* The indices formatted here are far below usize::MAX.
ParseUsize[s \in Seq(0..255)] ==
    LET d == IF s # <<>> /\ s[1] = 43 THEN Tail(s) ELSE s
    IN  IF d # <<>> /\ \A k \in 1..Len(d) : IsDigit(d[k])
        THEN [ok |-> TRUE, value |-> DecValue(d, 1, Len(d) + 1)]
        ELSE [ok |-> FALSE, value |-> 0]

\* str::split(c), collected: the pieces between the occurrences of c.
Split[s \in Seq(0..255), c \in 0..255] ==
    IF \A k \in 1..Len(s) : s[k] # c THEN <<s>>
    ELSE LET i == CHOOSE k \in 1..Len(s) :
                      s[k] = c /\ \A j \in 1..(k - 1) : s[j] # c
         IN  <<SubSeq(s, 1, i - 1)>> \o Split[SubSeq(s, i + 1, Len(s)), c]

InscriptionId(t, n) == [txid |-> t, index |-> n]

\* InscriptionId::from_str: the first two pieces of s.split('i').
FromStr(s) ==
    LET pieces == Split[s, 105]
        t == ParseTxid[pieces[1]]
        n == IF Len(pieces) >= 2 THEN ParseUsize[pieces[2]]
             ELSE [ok |-> FALSE, value |-> 0]
    IN  IF t.ok /\ n.ok
        THEN [ok |-> TRUE, txid |-> t.value, index |-> n.value]
        ELSE [ok |-> FALSE, txid |-> <<>>, index |-> 0]

\* InscriptionId's Display: "{}i{}".
FmtInscriptionId(id) == FmtTxid(id.txid) \o <<105>> \o FmtUsize(id.index)

\* Inscription::inscription_id: "{}i{}" of the record's txid and index.
InscriptionIdOf(r) == FmtTxid(r.txid) \o <<105>> \o FmtUsize(r.index)

(***************************************************************************)
(* extract_all, extract_witness and fetch_and_print on one transaction.    *)
(***************************************************************************)
MaxIndex == 11

TxInit ==
    /\ ScriptAtRest
    /\ FilterAtRest
    /\ ExploreAtRest
    /\ tx \in Transactions
    /\ txid \in Txids
    /\ tpc = "start"
    /\ idx = 0
    /\ collected = <<>>
    /\ input = 0
    /\ ret = NoResult
    /\ ident = InscriptionId(<<>>, 0)
    /\ idstr = <<>>
    /\ parsedId = NoId
    /\ picked = <<>>
    /\ fetched = NoResult

\* extract_all is called: `let mut inscriptions = Vec::with_capacity(1)`.
ExtractAllCall ==
    /\ tpc = "start"
    /\ tpc' = "extract_all"
    /\ idx' = 0
    /\ collected' = <<>>
    /\ UNCHANGED <<tx, txid, input, ret, ident, idstr, parsedId, picked,
                   fetched>>
    /\ UNCHANGED <<vars, fvars, evars>>

\* One turn of the loop of extract_all with the records of an input put
\* before those collected so far.
ExtractAllStepPrepend ==
    /\ tpc = "extract_all"
    /\ idx < Len(tx)
    /\ \E r \in {ExtractWitness(tx, txid, idx)} :
           IF r.ok
           THEN /\ collected' = r.value \o collected
                /\ idx' = idx + 1
                /\ UNCHANGED <<tpc, ret>>
           ELSE /\ ret' = r
                /\ tpc' = "all_done"
                /\ UNCHANGED <<idx, collected>>
    /\ UNCHANGED <<tx, txid, input, ident, idstr, parsedId, picked, fetched>>
    /\ UNCHANGED <<vars, fvars, evars>>

\* One turn of the loop of extract_all:
\* `inscriptions.extend(Inscription::extract_witness(tx, idx)?)`.
ExtractAllStep ==
    /\ tpc = "extract_all"
    /\ idx < Len(tx)
    /\ \E r \in {ExtractWitness(tx, txid, idx)} :
           IF r.ok
           THEN /\ collected' = collected \o r.value
                /\ idx' = idx + 1
                /\ UNCHANGED <<tpc, ret>>
           ELSE /\ ret' = r
                /\ tpc' = "all_done"
                /\ UNCHANGED <<idx, collected>>
    /\ UNCHANGED <<tx, txid, input, ident, idstr, parsedId, picked, fetched>>
    /\ UNCHANGED <<vars, fvars, evars>>

\* The loop of extract_all is over: `Ok(inscriptions)`.
ExtractAllReturn ==
    /\ tpc = "extract_all"
    /\ idx = Len(tx)
    /\ ret' = Ok(collected)
    /\ tpc' = "all_done"
    /\ UNCHANGED <<tx, txid, idx, collected, input, ident, idstr, parsedId,
                   picked, fetched>>
    /\ UNCHANGED <<vars, fvars, evars>>

\* extract_witness is called with an input index, in range or not.
ExtractWitnessCall ==
    /\ tpc = "start"
    /\ \E n \in 0..(MaxInputs + 1) :
        /\ input' = n
        /\ ret' = ExtractWitness(tx, txid, n)
    /\ tpc' = "witness_done"
    /\ UNCHANGED <<tx, txid, idx, collected, ident, idstr, parsedId, picked,
                   fetched>>
    /\ UNCHANGED <<vars, fvars, evars>>

\* An InscriptionId of the transaction is formatted and the string parsed.
IdRoundTrip ==
    /\ tpc = "start"
    /\ \E n \in 0..MaxIndex :
        /\ ident' = InscriptionId(txid, n)
        /\ idstr' = FmtInscriptionId(InscriptionId(txid, n))
        /\ parsedId' = FromStr(FmtInscriptionId(InscriptionId(txid, n)))
    /\ tpc' = "parsed"
    /\ UNCHANGED <<tx, txid, idx, collected, input, ret, picked, fetched>>
    /\ UNCHANGED <<vars, fvars, evars>>

\* The identifier of a record extract_all returned is given to the
\* inscription command: from_str parses it, and fetch_and_print gets the
\* transaction of the parsed txid and calls extract_witness with the parsed
\* number as the input.
FetchAndPrint ==
    /\ tpc = "all_done"
    /\ ret.ok
    /\ \E k \in 1..Len(ret.value) :
        \E id \in {FromStr(InscriptionIdOf(ret.value[k]))} :
            /\ picked' = ret.value[k]
            /\ idstr' = InscriptionIdOf(ret.value[k])
            /\ parsedId' = id
            /\ fetched' =
                 IF ~id.ok THEN Err("Inscription ID parse error")
                 ELSE IF id.txid # txid THEN Err("no transaction")
                 ELSE IF ExtractWitness(tx, txid, id.index).ok
                      THEN ExtractWitness(tx, txid, id.index)
                 ELSE Err("Inscription not found")
    /\ tpc' = "fetched"
    /\ UNCHANGED <<tx, txid, idx, collected, input, ret, ident>>
    /\ UNCHANGED <<vars, fvars, evars>>

TxNext ==
    \/ ExtractAllCall
    \/ ExtractAllStep
    \/ ExtractAllReturn
    \/ ExtractWitnessCall
    \/ IdRoundTrip
    \/ FetchAndPrint

allvars == <<vars, txvars, fvars, evars>>

TxSpec == TxInit /\ [][TxNext]_allvars

(***************************************************************************)
(* Filters (src/src/filter.rs) and the functions that apply them.          *)
(***************************************************************************)
AllFilters == {"Text", "Json", "Brc20", "Html", "Image"}

\* Filter::inscription with a Text filter that holds for the Text variant
\* alone.
FilterInscriptionTextOnly(f, r) ==
    IF f = "Text" THEN r.parsed.kind = "Text"
    ELSE IF f = "Json" THEN IsJson(r.parsed)
    ELSE IF f = "Brc20" THEN IsBrc20(r.parsed)
    ELSE IF f = "Html" THEN IsHtml(r.parsed)
    ELSE IsImage(r.parsed)

\* Filter::inscription
FilterInscription(f, r) ==
    IF f = "Text" THEN IsText(r.parsed)
    ELSE IF f = "Json" THEN IsJson(r.parsed)
    ELSE IF f = "Brc20" THEN IsBrc20(r.parsed)
    ELSE IF f = "Html" THEN IsHtml(r.parsed)
    ELSE IsImage(r.parsed)

\* The tags and payloads of the envelopes filtered.
\* text/html
TextHtmlBytes ==
    <<116, 101, 120, 116, 47, 104, 116, 109, 108>>

\* Text/HTML
MixedHtmlBytes ==
    <<84, 101, 120, 116, 47, 72, 84, 77, 76>>

\* {"p":"brc-20"}
Brc20Json ==
    <<123, 34, 112, 34, 58, 34, 98, 114, 99, 45, 50, 48, 34, 125>>

\* {"p":"x","p":"brc-20"}
TwiceJson ==
    <<123, 34, 112, 34, 58, 34, 120, 34, 44, 34, 112, 34, 58, 34, 98,
      114, 99, 45, 50, 48, 34, 125>>

\* {"p":"x"}
OtherJson ==
    <<123, 34, 112, 34, 58, 34, 120, 34, 125>>

\* {"q":"brc-20"}
NoFieldJson ==
    <<123, 34, 113, 34, 58, 34, 98, 114, 99, 45, 50, 48, 34, 125>>

\* ["brc-20"]
ArrayJson ==
    <<91, 34, 98, 114, 99, 45, 50, 48, 34, 93>>

\* "brc-20" (with the quotes)
StringJson ==
    <<34, 98, 114, 99, 45, 50, 48, 34>>

\* A plain portable bitmap of one pixel: "P1 1 1 0".
PlainPbm ==
    <<80, 49, 32, 49, 32, 49, 32, 48>>

\* A raw portable bitmap of one pixel: "P4 1 1", a line feed, the byte 0x80.
RawPbm ==
    <<80, 52, 32, 49, 32, 49, 10, 128>>

Tags == {<<>>, TagBytes, TextHtmlBytes, MixedHtmlBytes}

Payloads == {<<>>, HiBytes, BadBytes, Brc20Json, TwiceJson, OtherJson,
             NoFieldJson, ArrayJson, StringJson, PlainPbm, RawPbm}

\* What extraction finds in one input: nothing, or one envelope.
Nothing == [some |-> FALSE, mime |-> <<>>, data |-> <<>>]
Found(mime, bytes) == [some |-> TRUE, mime |-> mime, data |-> bytes]

\* One envelope of each kind of content, and none.
Kinds ==
    {Nothing, Found(TagBytes, HiBytes), Found(TextHtmlBytes, Brc20Json),
     Found(TagBytes, Brc20Json), Found(TagBytes, ArrayJson),
     Found(TagBytes, PlainPbm), Found(TagBytes, RawPbm),
     Found(TagBytes, BadBytes)}

MaxFound == 2

\* The blocks: one input with any tag and payload, or up to MaxFound
\* inputs with one of the kinds each.
Blocks ==
    {<<Found(t, p)>> : t \in Tags, p \in Payloads}
        \cup SeqsUpTo(Kinds, MaxFound)

\* The records of the inputs in which extraction found an envelope.  Every
\* record is the first of its input.
RecordsOf(b) ==
    [k \in 1..Len(SelectSeq(b, LAMBDA e : e.some)) |->
        Inscription(<<>>, 0, SelectSeq(b, LAMBDA e : e.some)[k].mime,
                    SelectSeq(b, LAMBDA e : e.some)[k].data)]

FilterInit ==
    /\ ScriptAtRest
    /\ TxAtRest
    /\ ExploreAtRest
    /\ block \in Blocks
    /\ records = <<>>
    /\ result = <<>>
    /\ \/ fpc = "scan" /\ filters \in SUBSET AllFilters
       \/ fpc = "explore" /\ filters = AllFilters

\* The test of scan_block and scan_transaction on one inscription.
ScanKeeps(fs, r) ==
    IF Cardinality(fs) > 0
    THEN \E f \in fs : FilterInscription(f, r)
    ELSE TRUE

\* The test of retrieve_block_inscriptions on one inscription.
ExploreKeeps(fs, r) == \E f \in fs : FilterInscription(f, r)

\* scan_block: every input of every transaction of the block.
ScanBlock ==
    /\ fpc = "scan"
    /\ records' = RecordsOf(block)
    /\ result' = SelectSeq(RecordsOf(block), LAMBDA r : ScanKeeps(filters, r))
    /\ fpc' = "scan_block"
    /\ UNCHANGED <<block, filters>>
    /\ UNCHANGED <<vars, txvars, evars>>

\* scan_transaction: every input of the transaction.
ScanTransaction ==
    /\ fpc = "scan"
    /\ records' = RecordsOf(block)
    /\ result' = SelectSeq(RecordsOf(block), LAMBDA r : ScanKeeps(filters, r))
    /\ fpc' = "scan_transaction"
    /\ UNCHANGED <<block, filters>>
    /\ UNCHANGED <<vars, txvars, evars>>

\* set_filters: the selection of the MultiSelect, any subset of
\* Filter::all(), becomes state.filters.
SetFilters ==
    /\ fpc = "explore"
    /\ \E selected \in SUBSET AllFilters : filters' = selected
    /\ UNCHANGED <<block, records, result, fpc>>
    /\ UNCHANGED <<vars, txvars, evars>>

\* retrieve_block_inscriptions
RetrieveBlockInscriptions ==
    /\ fpc = "explore"
    /\ records' = RecordsOf(block)
    /\ result' = SelectSeq(RecordsOf(block),
                           LAMBDA r : ExploreKeeps(filters, r))
    /\ fpc' = "retrieve_block_inscriptions"
    /\ UNCHANGED <<block, filters>>
    /\ UNCHANGED <<vars, txvars, evars>>

FilterNext ==
    \/ ScanBlock
    \/ ScanTransaction
    \/ SetFilters
    \/ RetrieveBlockInscriptions

FilterSpec == FilterInit /\ [][FilterNext]_allvars

(***************************************************************************)
(* Properties of extract_all, extract_witness and the identifier.          *)
(***************************************************************************)
\* What extract_witness returns for each input of the transaction, in the
\* order of the inputs.
PerInput == [i \in 1..Len(tx) |-> ExtractWitness(tx, txid, i - 1)]

\* An input that has no tapscript, or whose tapscript does not decode.
Unreadable(txin) == ~txin.tapscript \/ ~CollectInstructions(txin.items).ok

\* C12: extract_all never fails and returns the concatenation, in input
\* order, of what extract_witness returns for each input; an input without
\* tapscript or with a script that does not decode contributes no record
\* and the records of the other inputs are all returned.
C12Theorem ==
    tpc = "all_done" =>
        /\ ret.ok
        /\ ret.value = Flatten([i \in 1..Len(tx) |-> PerInput[i].value])
        /\ \A i \in 1..Len(tx) :
            /\ PerInput[i].ok
            /\ Unreadable(tx[i]) => PerInput[i].value = <<>>
            /\ \A k \in 1..Len(PerInput[i].value) :
                \E j \in 1..Len(ret.value) : ret.value[j] = PerInput[i].value[k]

\* extract_all has returned for a transaction whose first input does not
\* decode after a complete envelope and whose second input holds two
\* envelopes: the two records of the second input are the result.
C12Witness ==
    /\ tpc = "all_done"
    /\ Len(tx) = 2
    /\ tx[1].tapscript
    /\ ~CollectInstructions(tx[1].items).ok
    /\ StrictAt(tx[1].items, 1)
    /\ Len(PerInput[2].value) = 2
    /\ ret = Ok(PerInput[2].value)

\* C13: extract_witness fails, with the missing-input error, exactly when
\* the input index is out of range for the transaction's inputs; for an
\* index in range it returns a list.
C13Theorem ==
    tpc = "witness_done" =>
        /\ ret.ok <=> input < Len(tx)
        /\ ~ret.ok => ret.err = "Missing input" /\ ret.value = <<>>

\* extract_witness was called with the index just past the last input of a
\* transaction that has inputs, and failed.
C13Witness ==
    /\ tpc = "witness_done"
    /\ Len(tx) > 0
    /\ input = Len(tx)
    /\ ~ret.ok

\* C14: the records extract_witness returns carry the index values
\* 0, 1, ..., n-1 in the order of emission, whichever input of the
\* transaction they come from.
C14Theorem ==
    tpc = "witness_done" /\ ret.ok =>
        \A k \in 1..Len(ret.value) : ret.value[k].index = k - 1

\* extract_witness has returned two records for the second input of a
\* transaction whose first input holds records too.
C14Witness ==
    /\ tpc = "witness_done"
    /\ input = 1
    /\ ret.ok
    /\ Len(ret.value) = 2
    /\ PerInput[1].value # <<>>

\* C15: formatting InscriptionId(t, n) as "<t>i<n>" and parsing the string
\* with from_str succeeds and gives back (t, n).
C15Theorem ==
    tpc = "parsed" =>
        /\ parsedId.ok
        /\ parsedId.txid = ident.txid
        /\ parsedId.index = ident.index

\* An identifier with a two-digit index and a txid whose bytes differ has
\* been formatted and parsed back.
C15Witness ==
    /\ tpc = "parsed"
    /\ ident.index >= 10
    /\ ident.txid[1] # ident.txid[TxidLen]
    /\ Len(idstr) = 2 * TxidLen + 3
    /\ parsedId = [ok |-> TRUE, txid |-> ident.txid, index |-> ident.index]

\* C16: for every record r extract_all returned, parsing r.inscription_id()
\* and looking it up as fetch_and_print does gives a result that contains
\* r.
C16Claim ==
    tpc = "fetched" =>
        /\ fetched.ok
        /\ \E k \in 1..Len(fetched.value) : fetched.value[k] = picked

(***************************************************************************)
(* Properties of the classification and of the filters.                    *)
(***************************************************************************)
\* A function that applies the filters has returned.
Filtered == fpc \in {"scan_block", "scan_transaction",
                     "retrieve_block_inscriptions"}

Variants == {"Binary", "Html", "Image", "Json", "Text"}

\* The tag holds "html" in some mix of upper and lower case.
HtmlTag(mime) ==
    \E i \in 1..(Len(mime) - 3) :
        /\ mime[i] \in {72, 104}
        /\ mime[i + 1] \in {84, 116}
        /\ mime[i + 2] \in {77, 109}
        /\ mime[i + 3] \in {76, 108}

\* The variant the tie-break order gives a tag and a payload.
TieBreak(mime, bytes) ==
    IF IsUtf8(bytes)
    THEN IF HtmlTag(mime) THEN "Html"
         ELSE IF JsonFromStr(bytes).ok THEN "Json"
         ELSE "Text"
    ELSE IF LoadFromMemory(bytes).ok THEN "Image"
    ELSE "Binary"

\* C17: parse_data yields one variant for every tag and payload, the same
\* for the same pair, in the tie-break order: UTF-8 first; for a UTF-8
\* payload Html by a tag that holds "html" whatever the case, else Json if
\* the payload parses as JSON, else Text; Image only for a payload that is
\* not UTF-8, else Binary.
C17Theorem ==
    Filtered =>
        \A k \in 1..Len(records) :
            LET r == records[k]
            IN  /\ r.parsed.kind \in Variants
                /\ r.parsed.kind = TieBreak(r.mime, r.data)
                /\ r.parsed.kind \in {"Html", "Text"} => r.parsed.text = r.data
                /\ r.parsed.kind = "Json" =>
                       r.parsed.json = JsonFromStr(r.data).value
                /\ \A j \in 1..Len(records) :
                       records[j].mime = r.mime /\ records[j].data = r.data
                           => records[j].parsed = r.parsed

\* A JSON payload under a tag that holds "html" in mixed case has been
\* classified: Html, not Json.
C17Witness ==
    /\ Filtered
    /\ \E k \in 1..Len(records) :
        /\ records[k].mime = MixedHtmlBytes
        /\ JsonFromStr(records[k].data).ok
        /\ records[k].parsed.kind = "Html"

\* C18 as stated: a payload is classified Image if and only if it decodes
\* as an image, whatever the tag and also when its bytes are valid UTF-8.
C18Claim ==
    Filtered =>
        \A k \in 1..Len(records) :
            records[k].parsed.kind = "Image"
                <=> LoadFromMemory(records[k].data).ok

\* C18, amended: a payload is classified Image if and only if it is not
\* valid UTF-8 and decodes as an image, whatever the tag.
C18Theorem ==
    Filtered =>
        \A k \in 1..Len(records) :
            records[k].parsed.kind = "Image"
                <=> /\ ~IsUtf8(records[k].data)
                    /\ LoadFromMemory(records[k].data).ok

\* Two images have been classified: the raw bitmap, which is not UTF-8, as
\* Image, the plain bitmap, which is, as Text.
C18Witness ==
    /\ Filtered
    /\ Len(records) = 2
    /\ records[1].data = PlainPbm
    /\ LoadFromMemory(records[1].data).ok
    /\ records[1].parsed.kind = "Text"
    /\ records[2].data = RawPbm
    /\ records[2].parsed.kind = "Image"

\* The content is Json and the parsed value an object whose member "p" is
\* the string "brc-20".
Brc20Object(parsed) ==
    /\ parsed.kind = "Json"
    /\ parsed.json.t = "object"
    /\ \E k \in 1..Len(parsed.json.items) :
        /\ parsed.json.items[k].key = <<112>>
        /\ parsed.json.items[k].val = JsonValue("string", Brc20Bytes, <<>>)

\* C19: is_brc20 is true if and only if the content is classified Json and
\* the parsed value is an object whose member "p" is the string "brc-20";
\* it is false for arrays, scalars, objects without that member, and for
\* every other variant, also for brc-20 JSON classified Html by its tag.
C19Theorem ==
    Filtered =>
        /\ \A k \in 1..Len(records) :
            /\ IsBrc20(records[k].parsed) <=> Brc20Object(records[k].parsed)
            /\ records[k].parsed.kind # "Json" => ~IsBrc20(records[k].parsed)
        /\ fpc # "retrieve_block_inscriptions" /\ filters = {"Brc20"} =>
               result = SelectSeq(records, LAMBDA r : Brc20Object(r.parsed))

\* The scan with the one filter Brc20 has returned for a block with the
\* brc-20 JSON under an html tag and under another tag: the second alone
\* is kept.
C19Witness ==
    /\ fpc = "scan_block"
    /\ filters = {"Brc20"}
    /\ Len(records) = 2
    /\ records[1].data = Brc20Json
    /\ records[1].parsed.kind = "Html"
    /\ records[2].data = Brc20Json
    /\ records[2].parsed.kind = "Json"
    /\ result = <<records[2]>>

\* C20: with an empty set of filters every extracted inscription is in the
\* result of the block scan, of the transaction scan and of the explorer's
\* block retrieval.
C20Claim == Filtered /\ filters = {} => result = records

(***************************************************************************)
(* The strict single-envelope extractor (main.rs): skip two instructions,  *)
(* then match one envelope at a fixed position.                            *)
(***************************************************************************)
\* bitcoin::script::read_scriptint: None for more than four bytes and for a
\* non-minimal encoding, else the little-endian number with its sign bit.
RECURSIVE LittleEndian(_)
LittleEndian(b) ==
    IF b = <<>> THEN 0 ELSE Head(b) + 256 * LittleEndian(Tail(b))

ReadScriptint(b) ==
    IF Len(b) > 4 THEN [some |-> FALSE, value |-> 0]
    ELSE IF b = <<>> THEN [some |-> TRUE, value |-> 0]
    ELSE IF b[Len(b)] % 128 = 0 /\ (Len(b) <= 1 \/ b[Len(b) - 1] < 128)
         THEN [some |-> FALSE, value |-> 0]
    ELSE IF b[Len(b)] >= 128
         THEN [some |-> TRUE,
               value |-> 0 - (LittleEndian(b) - 128 * 256 ^ (Len(b) - 1))]
    ELSE [some |-> TRUE, value |-> LittleEndian(b)]

\* Instruction::script_num: OP_PUSHNUM_1..16 and OP_PUSHNUM_NEG1 are numbers,
\* no other opcode is; a push is the number its bytes encode.
ScriptNum(ins) ==
    IF IsOp(ins)
    THEN IF ins.op >= 81 /\ ins.op <= 96
         THEN [some |-> TRUE, value |-> ins.op - 80]
         ELSE IF ins.op = 79 THEN [some |-> TRUE, value |-> 0 - 1]
         ELSE [some |-> FALSE, value |-> 0]
    ELSE ReadScriptint(ins.bytes)

\* main.rs extract_mime_type: when the tag is the number 1, pop an
\* instruction and yield its bytes if it is a push of UTF-8.
MainExtractMimeType(q, tag) ==
    IF ScriptNum(tag) = [some |-> TRUE, value |-> 1]
    THEN IF q = <<>> THEN [some |-> FALSE, value |-> <<>>, rest |-> q]
         ELSE IF IsPush(Head(q)) /\ IsUtf8(Head(q).bytes)
              THEN [some |-> TRUE, value |-> Head(q).bytes, rest |-> Tail(q)]
              ELSE [some |-> FALSE, value |-> <<>>, rest |-> Tail(q)]
    ELSE [some |-> FALSE, value |-> <<>>, rest |-> q]

\* The `while let` of main.rs extract_data: pop; a push is appended, an
\* opcode (popped) ends the loop, and so does the end of the queue.
RECURSIVE MainDataLoop(_)
MainDataLoop(q) ==
    IF q = <<>> THEN <<>>
    ELSE IF IsOp(Head(q)) THEN <<>>
    ELSE Head(q).bytes \o MainDataLoop(Tail(q))

\* main.rs extract_data: the pushes after a tag that is the number 0.
MainExtractData(q, tag) ==
    IF ScriptNum(tag) = [some |-> TRUE, value |-> 0]
    THEN MainDataLoop(q)
    ELSE <<>>

\* main.rs extract_inscription on the items of a tapscript.
MainExtractInscription(s) ==
    LET none == [some |-> FALSE, mime |-> <<>>, data |-> <<>>]
        c == CollectInstructions(s)
        q == c.value
    IN  IF ~c.ok THEN none
        ELSE IF Len(q) < 5 THEN none
        ELSE IF ~(IsPush(q[3]) /\ q[3].bytes = <<>>) THEN none
        ELSE IF ~(IsOp(q[4]) /\ q[4].op = OP_IF) THEN none
        ELSE IF ~(IsPush(q[5]) /\ q[5].bytes = OrdBytes) THEN none
        ELSE IF Len(q) < 6 THEN none
        ELSE LET m == MainExtractMimeType(SubSeq(q, 7, Len(q)), q[6])
             IN  IF m.rest = <<>> THEN none
                 ELSE [some |-> TRUE,
                       mime |-> IF m.some THEN m.value ELSE <<>>,
                       data |-> MainExtractData(Tail(m.rest), Head(m.rest))]

(***************************************************************************)
(* Properties of the scan as a whole.                                      *)
(***************************************************************************)
\* C22: for every stream from which the strict single-envelope extractor
\* yields an envelope, extract_script yields a record with the same tag and
\* the same payload.
C22Claim ==
    (Done /\ MainExtractInscription(script).some) =>
        \E k \in 1..Len(inscriptions) :
            inscriptions[k] = [mime |-> MainExtractInscription(script).mime,
                               data |-> MainExtractInscription(script).data]

\* The index of the instruction on which the candidate that starts at s[1]
\* fails one of the grammar steps 2-4 (OP_IF, "ord", the marker, the tag),
\* or 0 when s[1] starts no candidate or the candidate passes them.
FailedOn(s) ==
    IF Len(s) < 2 \/ s[1] # PushEmpty THEN 0
    ELSE IF s[2] # OpIf THEN 2
    ELSE IF Len(s) < 3 THEN 0
    ELSE IF s[3] # PushOrd THEN 3
    ELSE IF Len(s) < 4 THEN 0
    ELSE IF s[4] # PushOne THEN 4
    ELSE IF Len(s) < 5 THEN 0
    ELSE IF ~(IsPush(s[5]) /\ IsUtf8(s[5].bytes)) THEN 5
    ELSE 0

\* C23: after a candidate fails at a grammar step, a well-formed envelope
\* that begins at the instruction on which the candidate failed (its empty
\* push and OP_IF are a start marker of their own), or at the instruction
\* after it, is extracted.  Stated for an envelope whose tag is UTF-8, that
\* holds only pushes before the separator and that ends the stream.
C23Claim ==
    (Done /\ FailedOn(script) # 0) =>
        \A j \in {FailedOn(script), FailedOn(script) + 1} :
            (StrictAt(script, j) /\ EnvEnd(script, j) = Len(script))
                => \E n \in 1..Len(inscriptions) :
                        inscriptions[n] = RecordAt(script, j)

\* The records from the k-th on are those of envelopes of the stream that
\* start at or after `from`, one after the other, each inside the part of
\* the stream already consumed.
RECURSIVE RecordsFrom(_, _)
RecordsFrom(k, from) ==
    \/ k > Len(inscriptions)
    \/ \E i \in from..Len(script) :
        /\ StrictAt(script, i)
        /\ inscriptions[k] = RecordAt(script, i)
        /\ EnvEnd(script, i) <= Consumed
        /\ RecordsFrom(k + 1, EnvEnd(script, i) + 1)

\* C26: every record corresponds to a contiguous run of the stream of the
\* form empty push, OP_IF, "ord", [1], a UTF-8 tag push, non-empty pushes,
\* an empty push, pushes, OP_ENDIF, whose tag and payload it carries; the
\* runs of the records do not overlap and stand in the order of the
\* records; there are no more records than OP_ENDIF opcodes in the stream.
C26Theorem ==
    /\ RecordsFrom(1, 1)
    /\ Len(inscriptions) <=
            Cardinality({i \in 1..Len(script) : script[i] = OpEndif})

\* Two records with different payloads have been returned for a stream that
\* starts with an instruction outside every envelope.
C26Witness ==
    /\ Done
    /\ Len(inscriptions) = 2
    /\ inscriptions[1].data # inscriptions[2].data
    /\ EnvEnd(script, 1) = 0

(***************************************************************************)
(* The file an inscription is extracted to (print_inscription).            *)
(***************************************************************************)
\* Inscription::file_extension.  An Image is a payload image::guess_format
\* knows by its magic bytes, here a PNM, whose first extension is "pbm".
FileExtension(r) ==
    IF r.parsed.kind = "Binary" THEN <<100, 97, 116>>
    ELSE IF r.parsed.kind = "Html" THEN <<104, 116, 109, 108>>
    ELSE IF r.parsed.kind = "Image" THEN <<112, 98, 109>>
    ELSE IF r.parsed.kind = "Json" THEN <<106, 115, 111, 110>>
    ELSE <<116, 120, 116>>

\* `format!("{}.{}", inscription_id(), file_extension())`
FileName(r) == InscriptionIdOf(r) \o <<46>> \o FileExtension(r)

\* C27: any two distinct records extract_all returned for a transaction
\* have different inscription_id() strings and different file names.
C27Claim ==
    tpc = "all_done" =>
        \A k, l \in 1..Len(ret.value) :
            k # l => /\ InscriptionIdOf(ret.value[k]) # InscriptionIdOf(ret.value[l])
                     /\ FileName(ret.value[k]) # FileName(ret.value[l])

(***************************************************************************)
(* Properties of the filters, continued.                                   *)
(***************************************************************************)
\* The predicate of a filter, by the variant of the record.
Selects(f, r) ==
    \/ f = "Text" /\ r.parsed.kind \in {"Html", "Json", "Text"}
    \/ f = "Json" /\ r.parsed.kind = "Json"
    \/ f = "Brc20" /\ Brc20Object(r.parsed)
    \/ f = "Html" /\ r.parsed.kind = "Html"
    \/ f = "Image" /\ r.parsed.kind = "Image"

\* C24: with a non-empty set of filters an inscription is in the result if
\* and only if the predicate of at least one selected filter holds for it;
\* a Binary inscription is in the result of no non-empty set of filters,
\* the explorer's default selection of all filters included.
C24Theorem ==
    (Filtered /\ filters # {}) =>
        /\ result = SelectSeq(records,
                              LAMBDA r : \E f \in filters : Selects(f, r))
        /\ \A k \in 1..Len(result) : result[k].parsed.kind # "Binary"

\* The explorer has retrieved, with all filters selected, a block with an
\* Html record and a Binary record: the first alone is in the result.
C24Witness ==
    /\ fpc = "retrieve_block_inscriptions"
    /\ filters = AllFilters
    /\ Len(records) = 2
    /\ records[1].parsed.kind = "Html"
    /\ records[2].parsed.kind = "Binary"
    /\ result = <<records[1]>>

(***************************************************************************)
(* The explorer (src/src/explore.rs): a stack of views, the top one        *)
(* rendered by the loop of explore().                                      *)
(***************************************************************************)
\* Option<T>
None == [some |-> FALSE, value |-> 0]
Some(v) == [some |-> TRUE, value |-> v]

\* u64::checked_sub
CheckedSub(a, b) == IF a >= b THEN Some(a - b) ELSE None

\* Option::unwrap_or_default
UnwrapOrDefault(o) == IF o.some THEN o.value ELSE 0

\* enum View: `start` and `index` are the fields of SelectBlocks (index is
\* also the Option of SelectInscriptions), `height` the block of
\* RetrieveBlockInscriptions, `items` the inscriptions of
\* SelectInscriptions, `item` the inscription of PrintInscription.
View(kind, start, index, height, items, item) ==
    [kind |-> kind, start |-> start, index |-> index, height |-> height,
     items |-> items, item |-> item]

MainMenuView == View("MainMenu", None, None, 0, <<>>, <<>>)
SelectBlocksView(start, index) ==
    View("SelectBlocks", start, index, 0, <<>>, <<>>)
InscriptionFiltersView == View("InscriptionFilters", None, None, 0, <<>>, <<>>)
ExtraOptionsView == View("ExtraOptions", None, None, 0, <<>>, <<>>)
RetrieveBlockInscriptionsView(h) ==
    View("RetrieveBlockInscriptions", None, None, h, <<>>, <<>>)
SelectInscriptionsView(items, index) ==
    View("SelectInscriptions", None, index, 0, items, <<>>)
PrintInscriptionView(i) ==
    View("PrintInscription", None, None, 0, <<>>, <<i>>)

\* The first view of the stack, where Vec::last gives the last.
Bottom(v) == v[1]

\* Vec::last and what Vec::pop leaves.
Last(v) == v[Len(v)]
Pop(v) == SubSeq(v, 1, Len(v) - 1)

\* The entries of the menus.
\* "View Blocks"
ViewBlocks == <<86, 105, 101, 119, 32, 66, 108, 111, 99, 107, 115>>
\* "Inscription Filters"
InscriptionFiltersOption ==
    <<73, 110, 115, 99, 114, 105, 112, 116, 105, 111, 110, 32, 70, 105,
      108, 116, 101, 114, 115>>
\* "Extra Options"
ExtraOptionsOption ==
    <<69, 120, 116, 114, 97, 32, 79, 112, 116, 105, 111, 110, 115>>
\* "Quit"
Quit == <<81, 117, 105, 116>>
\* "Previous Page"
PreviousPage ==
    <<80, 114, 101, 118, 105, 111, 117, 115, 32, 80, 97, 103, 101>>
\* "Next Page"
NextPage == <<78, 101, 120, 116, 32, 80, 97, 103, 101>>
\* "Home"
Home == <<72, 111, 109, 101>>

\* ExtraOptions::default(): the options that are set.
ExtraOptionsDefault == {"Ordinals"}

\* main_menu: the options.
MainMenuOptions ==
    <<ViewBlocks, InscriptionFiltersOption, ExtraOptionsOption, Quit>>

\* The page of select_blocks: 100 blocks below the newest one.
PageBlocks == 100

\* select_blocks: block_number, from the view or from the node.
BlockNumber(start) == IF start.some THEN start.value ELSE blocks - 1

\* select_blocks: oldest_block
OldestBlock(block_number) ==
    UnwrapOrDefault(CheckedSub(block_number, PageBlocks))

\* Vec::reverse
Reverse(s) == [k \in 1..Len(s) |-> s[Len(s) + 1 - k]]

\* select_blocks: the options, the blocks oldest_block..=block_number as
\* strings, then the three entries, all reversed.
SelectBlocksOptions(block_number) ==
    Reverse([k \in 1..(block_number - OldestBlock(block_number) + 1) |->
                FmtUsize(OldestBlock(block_number) + k - 1)]
            \o <<PreviousPage, NextPage, Home>>)

\* `state.view.clear(); state.view.push(View::MainMenu)` moved before the
\* clear: MainMenu is pushed on the stack as it is.
GoHomeNoClear(v) == Append(v, MainMenuView)

\* `state.view.clear(); state.view.push(View::MainMenu)`
GoHome(v) == <<MainMenuView>>

\* retrieve_block_inscriptions without its `state.view.pop()`.
AfterRetrieveNoPop(v, kept) ==
    IF kept = <<>> THEN v
    ELSE Append(v, SelectInscriptionsView(kept, None))

\* retrieve_block_inscriptions: the stack after the pop and, when an
\* inscription was kept, the push of SelectInscriptions.
AfterRetrieve(v, kept) ==
    IF kept = <<>> THEN Pop(v)
    ELSE Append(Pop(v), SelectInscriptionsView(kept, None))

\* The depth the stack of the runs explored may reach.
MaxDepth == 5

\* What the node reports as its number of blocks.
ChainTips == {0, 1, 60, 102, 250}

\* The blocks the node returns: no inscription, a Binary one, an Html and a
\* Binary one, a Text one.
ExplorerBlocks ==
    {<<>>, <<Found(TagBytes, BadBytes)>>,
     <<Found(TextHtmlBytes, Brc20Json), Found(TagBytes, BadBytes)>>,
     <<Found(TagBytes, HiBytes)>>}

\* The selections made in the two MultiSelect prompts, of Filter::all()
\* and of ExtraOption::all() (Extract, Web, Ordinals, Atomicals).
FilterChoices == {{}, {"Image"}, {"Text", "Html"}, AllFilters}
ExtraChoices == {{}, {"Extract", "Web"}, ExtraOptionsDefault}

\* The entries picked in select_blocks: the three entries, the newest block
\* and the oldest block of the page.
PickIndexes(opts) == {0, 1, 2, 3, Len(opts) - 1}

\* State::new, and the head of the loop of explore().
ExploreInit ==
    /\ ScriptAtRest
    /\ TxAtRest
    /\ block = <<>>
    /\ records = <<>>
    /\ result = <<>>
    /\ fpc = "rest"
    /\ filters = AllFilters
    /\ view = <<MainMenuView>>
    /\ extra_opts = ExtraOptionsDefault
    /\ blocks \in ChainTips
    /\ rendered = NoView
    /\ options = <<>>
    /\ chosen = NoChoice
    /\ epc = "loop"

\* `while let Some(view) = state.view.last().cloned()` is false: Ok(()).
ExploreReturn ==
    /\ epc = "loop"
    /\ view = <<>>
    /\ epc' = "done"
    /\ UNCHANGED <<view, extra_opts, blocks, rendered, options, chosen>>
    /\ UNCHANGED <<vars, txvars, fvars>>

\* A `?` of the handler of the top view returns Err: the prompt, the RPC
\* client, open_web, write_to_file or print failed, and explore() returns
\* the error with the stack as it is.
ExploreFail ==
    /\ epc = "loop"
    /\ view # <<>>
    /\ rendered' = Last(view)
    /\ epc' = "error"
    /\ UNCHANGED <<view, extra_opts, blocks, options, chosen>>
    /\ UNCHANGED <<vars, txvars, fvars>>

\* main_menu
ExploreMainMenu ==
    /\ epc = "loop"
    /\ view # <<>>
    /\ Last(view).kind = "MainMenu"
    /\ rendered' = Last(view)
    /\ options' = MainMenuOptions
    /\ \E i \in 0..(Len(MainMenuOptions) - 1) :
        /\ chosen' = [index |-> i, value |-> MainMenuOptions[i + 1]]
        /\ view' =
            IF MainMenuOptions[i + 1] = ViewBlocks
            THEN Append(view, SelectBlocksView(None, None))
            ELSE IF MainMenuOptions[i + 1] = InscriptionFiltersOption
            THEN Append(view, InscriptionFiltersView)
            ELSE IF MainMenuOptions[i + 1] = ExtraOptionsOption
            THEN Append(view, ExtraOptionsView)
            ELSE <<>>
    /\ UNCHANGED <<extra_opts, blocks, epc>>
    /\ UNCHANGED <<vars, txvars, fvars>>

\* select_blocks with no starting block on a node that reports no block:
\* `latest_block.blocks - 1` overflows, which panics or wraps by the build;
\* the run is not followed further.
ExploreOverflow ==
    /\ epc = "loop"
    /\ view # <<>>
    /\ Last(view).kind = "SelectBlocks"
    /\ ~Last(view).start.some
    /\ blocks = 0
    /\ rendered' = Last(view)
    /\ epc' = "overflow"
    /\ UNCHANGED <<view, extra_opts, blocks, options, chosen>>
    /\ UNCHANGED <<vars, txvars, fvars>>

\* select_blocks
ExploreSelectBlocks ==
    /\ epc = "loop"
    /\ view # <<>>
    /\ Last(view).kind = "SelectBlocks"
    /\ Last(view).start.some \/ blocks >= 1
    /\ rendered' = Last(view)
    /\ \E opts \in {SelectBlocksOptions(BlockNumber(Last(view).start))} :
       \E i \in PickIndexes(opts) :
       \E v \in {[view EXCEPT ![Len(view)].index = Some(i)]} :
        /\ options' = opts
        /\ chosen' = [index |-> i, value |-> opts[i + 1]]
        /\ opts[i + 1] = NextPage => Len(view) < MaxDepth
        /\ view' =
            IF opts[i + 1] = PreviousPage THEN Pop(v)
            ELSE IF opts[i + 1] = NextPage
            THEN Append(v, SelectBlocksView(
                    CheckedSub(OldestBlock(BlockNumber(Last(view).start)), 1),
                    None))
            ELSE IF opts[i + 1] = Home THEN GoHome(v)
            ELSE IF ParseUsize[opts[i + 1]].ok
            THEN Append(v, RetrieveBlockInscriptionsView(
                                ParseUsize[opts[i + 1]].value))
            ELSE v
        /\ epc' =
            IF opts[i + 1] \in {PreviousPage, NextPage, Home}
                \/ ParseUsize[opts[i + 1]].ok
            THEN "loop" ELSE "error"
    /\ UNCHANGED <<extra_opts, blocks>>
    /\ UNCHANGED <<vars, txvars, fvars>>

\* set_filters
ExploreSetFilters ==
    /\ epc = "loop"
    /\ view # <<>>
    /\ Last(view).kind = "InscriptionFilters"
    /\ rendered' = Last(view)
    /\ \E new_filters \in FilterChoices : filters' = new_filters
    /\ view' = Pop(view)
    /\ UNCHANGED <<extra_opts, blocks, options, chosen, epc>>
    /\ UNCHANGED <<block, records, result, fpc>>
    /\ UNCHANGED <<vars, txvars>>

\* set_extra_options
ExploreSetExtraOptions ==
    /\ epc = "loop"
    /\ view # <<>>
    /\ Last(view).kind = "ExtraOptions"
    /\ rendered' = Last(view)
    /\ \E selected \in ExtraChoices : extra_opts' = selected
    /\ view' = Pop(view)
    /\ UNCHANGED <<blocks, options, chosen, epc>>
    /\ UNCHANGED <<vars, txvars, fvars>>

\* retrieve_block_inscriptions
ExploreRetrieveBlockInscriptions ==
    /\ epc = "loop"
    /\ view # <<>>
    /\ Last(view).kind = "RetrieveBlockInscriptions"
    /\ rendered' = Last(view)
    /\ \E b \in ExplorerBlocks :
       \E kept \in {SelectSeq(RecordsOf(b),
                              LAMBDA r : ExploreKeeps(filters, r))} :
        /\ block' = b
        /\ records' = RecordsOf(b)
        /\ result' = kept
        /\ view' = AfterRetrieve(view, kept)
    /\ UNCHANGED <<extra_opts, blocks, options, chosen, epc>>
    /\ UNCHANGED <<filters, fpc>>
    /\ UNCHANGED <<vars, txvars>>

\* select_inscriptions.  The entries are Home and the inscriptions; the
\* text of an inscription's entry is not modelled.
ExploreSelectInscriptions ==
    /\ epc = "loop"
    /\ view # <<>>
    /\ Last(view).kind = "SelectInscriptions"
    /\ rendered' = Last(view)
    /\ \E i \in 0..Len(Last(view).items) :
       \E v \in {[view EXCEPT ![Len(view)].index = Some(i)]} :
        /\ chosen' = [index |-> i, value |-> IF i = 0 THEN Home ELSE <<>>]
        /\ view' =
            IF i = 0 THEN GoHome(v)
            ELSE Append(v, PrintInscriptionView(Last(view).items[i]))
    /\ UNCHANGED <<extra_opts, blocks, options, epc>>
    /\ UNCHANGED <<vars, txvars, fvars>>

\* print_inscription: the inscription is opened, written and printed as the
\* options say, and the view is popped.
ExplorePrintInscription ==
    /\ epc = "loop"
    /\ view # <<>>
    /\ Last(view).kind = "PrintInscription"
    /\ rendered' = Last(view)
    /\ view' = Pop(view)
    /\ UNCHANGED <<extra_opts, blocks, options, chosen, epc>>
    /\ UNCHANGED <<vars, txvars, fvars>>

ExploreNext ==
    \/ ExploreReturn
    \/ ExploreFail
    \/ ExploreMainMenu
    \/ ExploreOverflow
    \/ ExploreSelectBlocks
    \/ ExploreSetFilters
    \/ ExploreSetExtraOptions
    \/ ExploreRetrieveBlockInscriptions
    \/ ExploreSelectInscriptions
    \/ ExplorePrintInscription

ExploreSpec == ExploreInit /\ [][ExploreNext]_allvars

\* explore() is a running program: it goes on while a step is possible.
ExploreFairSpec == ExploreSpec /\ WF_allvars(ExploreNext)

(***************************************************************************)
(* Properties of the explorer.                                             *)
(***************************************************************************)
\* The stack without its top view.
Below(v) == SubSeq(v, 1, Len(v) - 1)

C25Theorem ==
    /\ [](\A k \in 1..(Len(view) - 1) :
            view[k].kind # "RetrieveBlockInscriptions")
    /\ [][(/\ view # <<>>
           /\ view[Len(view)].kind = "RetrieveBlockInscriptions"
           /\ epc' = "loop") =>
            /\ \A k \in 1..Len(view') :
                    view'[k].kind # "RetrieveBlockInscriptions"
            /\ result' = SelectSeq(records',
                            LAMBDA r : \E f \in filters : Selects(f, r))
            /\ view[Len(view) - 1].kind = "SelectBlocks"
            /\ IF result' # <<>>
               THEN view' = Append(Below(view),
                                   SelectInscriptionsView(result', None))
               ELSE view' = Below(view)]_allvars

\* A block whose one inscription no filter keeps has been retrieved: the
\* SelectBlocks view is the top view again.
C25Witness ==
    /\ epc = "loop"
    /\ rendered.kind = "RetrieveBlockInscriptions"
    /\ records # <<>>
    /\ result = <<>>
    /\ filters = AllFilters
    /\ view # <<>>
    /\ view[Len(view)].kind = "SelectBlocks"
    /\ view[Len(view)].index = Some(3)

\* C28: in a non-empty stack MainMenu is the bottom view and no other; Home
\* chosen in SelectBlocks or SelectInscriptions leaves exactly [MainMenu].
C28Theorem ==
    /\ [](view # <<>> =>
            /\ view[1] = MainMenuView
            /\ \A k \in 2..Len(view) : view[k].kind # "MainMenu")
    /\ [][(/\ view # <<>>
           /\ view[Len(view)].kind \in {"SelectBlocks", "SelectInscriptions"}
           /\ epc' = "loop"
           /\ chosen'.value = Home) => view' = <<MainMenuView>>]_allvars

\* Home has been chosen in a SelectInscriptions view that stood on the
\* second page of blocks.
C28Witness ==
    /\ view = <<MainMenuView>>
    /\ chosen.value = Home
    /\ rendered.kind = "SelectInscriptions"
    /\ Len(rendered.items) = 1
    /\ options[4] # FmtUsize(blocks - 1)

\* The blocks a page lists, newest first, read off the options shown.
Listed(opts) ==
    [k \in 1..(Len(opts) - 3) |-> ParseUsize[opts[k + 3]].value]

\* The newest block of the page a SelectBlocks view shows.
NewestOf(v) == IF v.start.some THEN v.start.value ELSE blocks - 1

\* C29: a page that starts at block b lists the blocks max(0, b - 100)..b;
\* Next Page pushes a page whose newest block is one below the oldest block
\* listed; Previous Page pops the page.
C29Claim ==
    [][(/\ view # <<>>
        /\ view[Len(view)].kind = "SelectBlocks"
        /\ epc' = "loop") =>
        LET b == NewestOf(view[Len(view)])
            oldest == IF b >= 100 THEN b - 100 ELSE 0
        IN  /\ Listed(options') = [k \in 1..(b - oldest + 1) |-> b - k + 1]
            /\ chosen'.value = NextPage =>
                /\ Len(view') = Len(view) + 1
                /\ view'[Len(view')].kind = "SelectBlocks"
                /\ NewestOf(view'[Len(view')]) = oldest - 1
            /\ chosen'.value = PreviousPage => view' = Below(view)]_allvars

====
